---- MODULE Spec2Model ----
(***************************************************************************)
(* Flash image analyzer (flash_img): partition discovery for Qualcomm and  *)
(* NVIDIA Tegra images, partition validation and partition extraction.     *)
(*                                                                         *)
(* An image file is a size and a sparse map of its explicitly written      *)
(* bytes; every other byte below the size is 0.  Text is a sequence of     *)
(* code points, binary data a sequence of byte values.  A 32-bit field is  *)
(* decoded to a pair of 16-bit halves (hi, lo), since its value can pass   *)
(* 2^31-1; offsets and sizes of partitions are integers.                   *)
(***************************************************************************)
EXTENDS Integers, Sequences, FiniteSets, TLC

VARIABLES
    image,          \* the image file on disk (self.filename's content)
    platform,       \* which analyzer class was constructed
    skip_fs,        \* self.skip_fs_analysis
    self_partitions,\* self.partitions: reference to a list object, 0 = unset
    heap,           \* list objects: reference -> sequence of PartitionInfo
    results,        \* AnalysisResult objects returned so far, in call order
    outcome,        \* what the last operation returned or raised
    dest,           \* the extraction destination file
    fs_log,         \* regions the FilesystemAnalyzer was invoked on (last analyze)
    calls,          \* analyze() / extract_partition() calls made so far
    vin,            \* _validate_partitions called directly: its input
    vout,           \* _validate_partitions called directly: its output
    fpos,           \* read position of the open file object handed to a callee
    din,            \* FilesystemAnalyzer.analyze called directly: its arguments
    dout,           \* FilesystemAnalyzer.analyze called directly: its outcome
    sniffs,         \* can_handle(f) calls made on the open file object, in order
    selected,       \* what select_analyzer returned or raised (none yet: <<>>)
    scanning,       \* a fallback scan run step by step: "idle", "running", "returned", "raised"
    cursor,         \* the scan's local variable offset
    emitted,        \* the scan's local list partitions
    called,         \* a helper method called directly: its name ("none" before)
    args,           \* that call's arguments
    returned        \* that call's return value

vars == <<image, platform, skip_fs, self_partitions, heap, results, outcome,
          dest, fs_log, calls, vin, vout, fpos, din, dout,
          sniffs, selected, scanning, cursor, emitted,
          called, args, returned>>

-----------------------------------------------------------------------------
(* Bounds of the model *)

\* analyze() / extract_partition() calls made on one analyzer instance
MaxCalls == 2

-----------------------------------------------------------------------------
(* Generic helpers *)

\* F applied to the value v, computed once (the one-element sets make the
\* evaluation of v eager, also under ENABLED)
Let(v, F(_)) == CHOOSE r \in {F(x) : x \in {v}} : TRUE

Min2(a, b) == IF a <= b THEN a ELSE b

Max2(a, b) == IF a >= b THEN a ELSE b

SetMin(S) == CHOOSE x \in S : \A y \in S : x <= y

RECURSIVE SumSeq(_)
SumSeq(s) == IF s = <<>> THEN 0 ELSE Head(s) + SumSeq(Tail(s))

\* half-open integer range a..b-1
Range(a, b) == a .. (b - 1)

-----------------------------------------------------------------------------
(* Byte strings used by the program *)

ELF_MAGIC == <<127, 69, 76, 70>>

GANG_MAGIC == <<71, 65, 78, 71>>

QCOM_MAGIC == <<81, 67, 79, 77>>

ZERO_MAGIC == <<0, 0, 0, 0>>

NVDA == <<78, 86, 68, 65>>

TEGR == <<84, 69, 71, 82>>

BCT0 == <<66, 67, 84, 0>>

NV3P == <<78, 86, 51, 80>>

NVIDIA_MAGICS == <<NVDA, TEGR, BCT0, NV3P>>

GPT_SIGNATURE == <<69, 70, 73, 32, 80, 65, 82, 84>>

ANDROID == <<65, 78, 68, 82, 79, 73, 68, 33>>

LINUX == <<76, 105, 110, 117, 120>>

VMLINUZ == <<118, 109, 108, 105, 110, 117, 122>>

-----------------------------------------------------------------------------
(* The file: size and bytes; reads through a file object *)

ByteAt(img, i) == IF i \in DOMAIN img.data THEN img.data[i] ELSE 0

\* f.seek(pos); f.read(n): the bytes returned, as a window [off, len) of the
\* file.  A read at or past the end returns b"" (len 0); n = -1 reads to the
\* end of the file.
Read(img, pos, n) ==
    LET avail == Max2(0, img.size - pos)
    IN  [off |-> pos, len |-> IF n = -1 THEN avail ELSE Min2(n, avail)]

\* BufferedReader.read(n) raises ValueError for n < -1
ReadRaises(n) == n < -1

\* chunk[a:b] as a byte sequence (b - a small)
Slice(img, chunk, a, b) ==
    LET hi == Min2(b, chunk.len)
    IN  [k \in 1 .. Max2(0, hi - a) |-> ByteAt(img, chunk.off + a + k - 1)]

MatchAt(img, p, magic) ==
    \A k \in 1 .. Len(magic) : ByteAt(img, p + k - 1) = magic[k]

\* positions of the file where `magic` occurs inside the chunk.  Every byte
\* string searched for by the program starts with a non-zero byte, so an
\* occurrence starts at an explicitly written byte.
Occurrences(img, chunk, magic) ==
    {p \in DOMAIN img.data :
        /\ p >= chunk.off
        /\ p + Len(magic) <= chunk.off + chunk.len
        /\ MatchAt(img, p, magic)}

\* `magic in chunk`
Contains(img, chunk, magic) == Occurrences(img, chunk, magic) # {}

\* chunk.find(magic), for a chunk that contains it
Find(img, chunk, magic) == SetMin(Occurrences(img, chunk, magic)) - chunk.off

\* any(magic in chunk for magic in magics)
ContainsAny(img, chunk, magics) ==
    \E m \in 1 .. Len(magics) : Contains(img, chunk, magics[m])

\* struct.unpack("<H", ...) at a file position
U16(img, p) == ByteAt(img, p) + 256 * ByteAt(img, p + 1)

\* struct.unpack("<I", ...) at a file position, as 16-bit halves
U32(img, p) == [hi |-> U16(img, p + 2), lo |-> U16(img, p)]

W32(hi, lo) == [hi |-> hi, lo |-> lo]

\* the integer value of a 32-bit field below 2^31
WInt(w) == w.hi * 65536 + w.lo

WIsZero(w) == w.hi = 0 /\ w.lo = 0

\* w > n for an integer 0 <= n < 2^31
WGtInt(w, n) == w.hi >= 32768 \/ WInt(w) > n

WLe(a, b) == a.hi < b.hi \/ (a.hi = b.hi /\ a.lo <= b.lo)

WLt(a, b) == a.hi < b.hi \/ (a.hi = b.hi /\ a.lo < b.lo)

-----------------------------------------------------------------------------
(* Text: a str is the sequence of its code points *)

STR_segment == <<115, 101, 103, 109, 101, 110, 116, 95>>

STR_partition == <<112, 97, 114, 116, 105, 116, 105, 111, 110, 95>>

STR_nvidia_partition == <<110, 118, 105, 100, 105, 97, 95, 112, 97, 114, 116, 105, 116, 105, 111, 110, 95>>

STR_BCT == <<66, 67, 84>>

\* str(n) for n >= 0
RECURSIVE Dec(_)
Dec(n) == IF n < 10 THEN <<48 + n>> ELSE Dec(n \div 10) \o <<48 + (n % 10)>>

\* a lower() that leaves the letters as they are written
AsWritten(s) == s

\* str.lower() on the ASCII letters
Lower(s) == [k \in 1 .. Len(s) |-> IF s[k] >= 65 /\ s[k] <= 90 THEN s[k] + 32 ELSE s[k]]

\* `sub in s` for str
SubStr(sub, s) ==
    \E p \in 0 .. (Len(s) - Len(sub)) : \A k \in 1 .. Len(sub) : s[p + k] = sub[k]

\* ImageType(...).value
ImageTypeValue(t) ==
    CASE t = "SBL" -> <<115, 98, 108>>
      [] t = "TZ" -> <<116, 122>>
      [] t = "RPM" -> <<114, 112, 109>>
      [] t = "APPSBL" -> <<97, 112, 112, 115, 98, 108>>
      [] t = "BOOT" -> <<98, 111, 111, 116>>
      [] t = "RECOVERY" -> <<114, 101, 99, 111, 118, 101, 114, 121>>
      [] t = "SYSTEM" -> <<115, 121, 115, 116, 101, 109>>
      [] t = "USERDATA" -> <<117, 115, 101, 114, 100, 97, 116, 97>>
      [] OTHER -> <<117, 110, 107, 110, 111, 119, 110>>

-----------------------------------------------------------------------------
(* Data model *)

\* Optional[...]: None is the empty sequence, a value v is <<v>>
None == <<>>

Some(v) == <<v>>

FilesystemInfo(fs_type, fs_size, used_size, free_size, block_size, total_blocks, free_blocks) ==
    [fs_type |-> fs_type, fs_size |-> fs_size, used_size |-> used_size,
     free_size |-> free_size, block_size |-> block_size,
     total_blocks |-> total_blocks, free_blocks |-> free_blocks]

\* PartitionInfo with its defaults load_addr = entry_point = crc32 = 0,
\* filesystem = None
PartitionInfo(name, offset, size, image_type, load_addr, entry_point) ==
    [name |-> name, offset |-> offset, size |-> size, image_type |-> image_type,
     load_addr |-> load_addr, entry_point |-> entry_point, crc32 |-> 0,
     filesystem |-> None]

-----------------------------------------------------------------------------
(* FilesystemAnalyzer *)

\* little-endian / big-endian unsigned integer of n bytes at a file position
RECURSIVE IntLE(_, _, _)
IntLE(img, p, n) ==
    IF n = 0 THEN 0 ELSE ByteAt(img, p) + 256 * IntLE(img, p + 1, n - 1)

RECURSIVE IntBE(_, _, _)
IntBE(img, p, n) ==
    IF n = 0 THEN 0 ELSE IntBE(img, p, n - 1) * 256 + ByteAt(img, p + n - 1)

HSQS == <<104, 115, 113, 115>>

SQSH == <<115, 113, 115, 104>>

UBI_MAGIC == <<85, 66, 73, 35>>

JFFS2_MAGICS == {<<25, 133>>, <<133, 25>>}

_analyze_ext_filesystem(img, offset, size, header) ==
    LET sb_offset == 1024
        sb_data == IF header.len < sb_offset + 96
                   THEN Read(img, offset + sb_offset, 96)
                   ELSE [off |-> header.off + sb_offset, len |-> 96]
    IN  IF sb_data.len < 96
        THEN FilesystemInfo("ext", size, 0, size, 4096, 0, 0)
        ELSE LET s_blocks_count == IntLE(img, sb_data.off + 4, 4)
                 s_free_blocks_count == IntLE(img, sb_data.off + 12, 4)
                 s_log_block_size == IntLE(img, sb_data.off + 24, 4)
                 block_size == 1024 * (2 ^ s_log_block_size)
                 fs_size == s_blocks_count * block_size
                 free_size == s_free_blocks_count * block_size
                 used_size == fs_size - free_size
             IN  FilesystemInfo("ext", fs_size, used_size, free_size, block_size,
                                s_blocks_count, s_free_blocks_count)

\* raises ZeroDivisionError when the superblock's block_size is 0
SquashfsRaises(img, header) ==
    /\ header.len >= 96
    /\ IF Slice(img, header, 0, 4) = HSQS
       THEN IntLE(img, header.off + 12, 4) = 0
       ELSE IntBE(img, header.off + 12, 4) = 0

\* a probe that takes the sizes from the region instead of the superblock
SquashfsFromRegionSize(img, offset, size, header) ==
    FilesystemInfo("squashfs", size, size, 0, 131072, 0, 0)

_analyze_squashfs_filesystem(img, offset, size, header) ==
    IF header.len < 96
    THEN FilesystemInfo("squashfs", size, size, 0, 131072, 0, 0)
    ELSE LET little == Slice(img, header, 0, 4) = HSQS
             bytes_used == IF little THEN IntLE(img, header.off + 40, 8)
                                     ELSE IntBE(img, header.off + 40, 8)
             block_size == IF little THEN IntLE(img, header.off + 12, 4)
                                     ELSE IntBE(img, header.off + 12, 4)
         IN  FilesystemInfo("squashfs", bytes_used, bytes_used, 0, block_size,
                            bytes_used \div block_size, 0)

_analyze_ubifs_filesystem(img, offset, size, header) ==
    FilesystemInfo("ubifs", size, size \div 2, size \div 2, 131072,
                   size \div 131072, (size \div 131072) \div 2)

_analyze_jffs2_filesystem(img, offset, size, header) ==
    FilesystemInfo("jffs2", size, size \div 3, (size * 2) \div 3, 65536,
                   size \div 65536, ((size \div 65536) * 2) \div 3)

_detect_yaffs2_pattern(img, header) ==
    LET starts == {i \in 0 .. 3 : i * 512 < Min2(header.len - 16, 2048)}
        hits == {i \in starts : ByteAt(img, header.off + i * 512) \in 1 .. 5}
    IN  Cardinality(hits) >= 2

_analyze_yaffs2_filesystem(img, offset, size, header) ==
    FilesystemInfo("yaffs2", size, size \div 2, size \div 2, 131072,
                   size \div 131072, (size \div 131072) \div 2)

\* f.seek(offset) raises OSError for a negative offset
SeekRaises(offset) == offset < 0

\* the probes run on the bytes read (header): what the try block returns,
\* or the exception a probe raised
FilesystemProbes(img, offset, size, header) ==
    LET is_ext == header.len >= 1124 /\ U16(img, header.off + 1080) = 61267
        is_squashfs == header.len >= 96 /\ Slice(img, header, 0, 4) \in {HSQS, SQSH}
        is_ubifs == header.len >= 64 /\ Slice(img, header, 0, 4) = UBI_MAGIC
        is_jffs2 == header.len >= 12 /\ Slice(img, header, 0, 2) \in JFFS2_MAGICS
        fs == IF header.len < 1024 THEN None
              ELSE IF is_ext THEN Some(_analyze_ext_filesystem(img, offset, size, header))
              ELSE IF is_squashfs
                   THEN IF SquashfsRaises(img, header) THEN None
                        ELSE Some(_analyze_squashfs_filesystem(img, offset, size, header))
              ELSE IF is_ubifs THEN Some(_analyze_ubifs_filesystem(img, offset, size, header))
              ELSE IF is_jffs2 THEN Some(_analyze_jffs2_filesystem(img, offset, size, header))
              ELSE IF _detect_yaffs2_pattern(img, header)
                   THEN Some(_analyze_yaffs2_filesystem(img, offset, size, header))
              ELSE None
    IN  [exc |-> IF header.len >= 1024 /\ ~is_ext /\ is_squashfs
                    /\ SquashfsRaises(img, header)
                 THEN "ZeroDivisionError" ELSE "",
         fs |-> fs]

\* the try block of FilesystemAnalyzer.analyze: seek, read, probes
FilesystemTry(img, offset, size) ==
    IF SeekRaises(offset) THEN [exc |-> "OSError", fs |-> None]
    ELSE IF ReadRaises(Min2(8192, size)) THEN [exc |-> "ValueError", fs |-> None]
    ELSE FilesystemProbes(img, offset, size, Read(img, offset, Min2(8192, size)))

\* an analyze without its except clause: the exception leaves the call
FilesystemReraise(t) == t

\* except Exception: return None
FilesystemExcept(t) ==
    IF t.exc # "" THEN [exc |-> "", fs |-> None] ELSE t

\* an analyze() without the finally clause: the file object stays where the
\* header read left it
FilesystemAnalyzeInPlace(img, pos, offset, size) ==
    Let(FilesystemExcept(FilesystemTry(img, offset, size)), LAMBDA r :
        [exc |-> r.exc, fs |-> r.fs,
         pos |-> IF SeekRaises(offset) THEN pos
                 ELSE offset + Read(img, offset, Max2(0, Min2(8192, size))).len])

\* FilesystemAnalyzer.analyze(f, offset, size) called with the file object at
\* position pos: the exception that leaves the call (none: ""), the
\* Optional[FilesystemInfo] returned and the position the file object is left
\* at (the finally clause seeks back to current_pos).
FilesystemAnalyze(img, pos, offset, size) ==
    Let(FilesystemExcept(FilesystemTry(img, offset, size)), LAMBDA r :
        [exc |-> r.exc, fs |-> r.fs, pos |-> pos])

-----------------------------------------------------------------------------
(* Partition validation (_validate_partitions of both analyzers) *)

\* a diagnostic string, kept as its parts:
\*   f"{name}: extends beyond file end"
\*   f"{name}: unusually large ({n} bytes)" / "unusually small ({n} bytes)"
\*   f"{name} overlaps with {other} by {n} bytes"
Diagnostic(msg, name, other, n) == [msg |-> msg, name |-> name, other |-> other, n |-> n]

\* the size checks reporting a size equal to a bound as well
PartitionChecksInclusive(p, file_size, max_size, min_size) ==
    (IF p.offset + p.size > file_size
     THEN <<Diagnostic("extends beyond file end", p.name, <<>>, 0)>> ELSE <<>>)
    \o (IF p.size >= max_size
        THEN <<Diagnostic("unusually large", p.name, <<>>, p.size)>> ELSE <<>>)
    \o (IF p.size <= min_size
        THEN <<Diagnostic("unusually small", p.name, <<>>, p.size)>> ELSE <<>>)

\* the findings of the per-partition checks for one partition, in order
PartitionChecks(p, file_size, max_size, min_size) ==
    (IF p.offset + p.size > file_size
     THEN <<Diagnostic("extends beyond file end", p.name, <<>>, 0)>> ELSE <<>>)
    \o (IF p.size > max_size
        THEN <<Diagnostic("unusually large", p.name, <<>>, p.size)>> ELSE <<>>)
    \o (IF p.size < min_size
        THEN <<Diagnostic("unusually small", p.name, <<>>, p.size)>> ELSE <<>>)

RECURSIVE PerPartitionErrors(_, _, _, _)
PerPartitionErrors(partitions, file_size, max_size, min_size) ==
    IF partitions = <<>> THEN <<>>
    ELSE PartitionChecks(Head(partitions), file_size, max_size, min_size)
         \o PerPartitionErrors(Tail(partitions), file_size, max_size, min_size)

\* insert p into a list sorted by offset, behind the entries with an equal
\* offset (sorted() is stable)
RECURSIVE InsertByOffset(_, _)
InsertByOffset(sorted, p) ==
    IF sorted = <<>> THEN <<p>>
    ELSE IF Head(sorted).offset <= p.offset
         THEN <<Head(sorted)>> \o InsertByOffset(Tail(sorted), p)
         ELSE <<p>> \o sorted

\* sorted(partitions, key=lambda p: p.offset): a new list
RECURSIVE SortedByOffset(_)
SortedByOffset(partitions) ==
    IF partitions = <<>> THEN <<>>
    ELSE InsertByOffset(SortedByOffset(SubSeq(partitions, 1, Len(partitions) - 1)),
                        partitions[Len(partitions)])

\* the overlap test taking touching partitions for overlapping
PairOverlapsOrTouches(current, next_part) ==
    current.offset + current.size >= next_part.offset

\* an overlap test that reports only a partition reaching the end of the next
PairEncloses(current, next_part) ==
    current.offset + current.size >= next_part.offset + next_part.size

\* the test of one adjacent pair of the sorted list
PairOverlaps(current, next_part) == current.offset + current.size > next_part.offset

\* the overlap loop over range(len(sorted_partitions) - 1), from index i (1-based)
RECURSIVE OverlapErrors(_, _)
OverlapErrors(sorted_partitions, i) ==
    IF i > Len(sorted_partitions) - 1 THEN <<>>
    ELSE LET current == sorted_partitions[i]
             next_part == sorted_partitions[i + 1]
             current_end == current.offset + current.size
         IN  (IF PairOverlaps(current, next_part)
              THEN <<Diagnostic("overlaps with", current.name, next_part.name,
                                current_end - next_part.offset)>>
              ELSE <<>>)
             \o OverlapErrors(sorted_partitions, i + 1)

ValidatePartitions(partitions, file_size, max_size, min_size) ==
    PerPartitionErrors(partitions, file_size, max_size, min_size)
    \o OverlapErrors(SortedByOffset(partitions), 1)

QUALCOMM_MAX_SIZE == 268435456

QUALCOMM_MIN_SIZE == 1024

NVIDIA_MAX_SIZE == 1073741824

NVIDIA_MIN_SIZE == 512

QualcommValidatePartitions(partitions, file_size) ==
    ValidatePartitions(partitions, file_size, QUALCOMM_MAX_SIZE, QUALCOMM_MIN_SIZE)

NVIDIAValidatePartitions(partitions, file_size) ==
    ValidatePartitions(partitions, file_size, NVIDIA_MAX_SIZE, NVIDIA_MIN_SIZE)

\* sum(p.size for p in partitions)
TotalPartitionSize(partitions) ==
    SumSeq([k \in 1 .. Len(partitions) |-> partitions[k].size])

\* sum(p.filesystem.used_size for p in partitions if p.filesystem)
TotalFilesystemUsed(partitions) ==
    SumSeq([k \in 1 .. Len(partitions) |->
               IF partitions[k].filesystem # None
               THEN partitions[k].filesystem[1].used_size ELSE 0])

\* filesystem analysis is attempted only for partitions above this size
FS_MIN_SIZE == 1048576

-----------------------------------------------------------------------------
(* QualcommAnalyzer *)

MBN_HEADER_SIZE == 40

SCAN_STRIDE == 4096

known_magics == {ELF_MAGIC, GANG_MAGIC, QCOM_MAGIC, ZERO_MAGIC}

\* a can_handle that reads the magic wherever the file object stands
QualcommCanHandleInPlace(img, pos) ==
    LET magic == Read(img, pos, 4)
    IN  [result |-> Slice(img, magic, 0, 4) \in known_magics,
         pos |-> magic.off + magic.len]

\* can_handle(f) with the file object at position pos: the answer and the
\* position the file object is left at
QualcommCanHandle(img, pos) ==
    LET magic == Read(img, 0, 4)
    IN  [result |-> Slice(img, magic, 0, 4) \in known_magics,
         pos |-> magic.off + magic.len]

_detect_gang_format(img, pos) ==
    LET magic == Read(img, 0, 4)
    IN  [result |-> Slice(img, magic, 0, 4) \in known_magics,
         pos |-> magic.off + magic.len]

\* struct.unpack("<10I", data) into an MBNHeader
_parse_mbn_header(img, data) ==
    IF data.len < 40 THEN None
    ELSE Some([image_id |-> U32(img, data.off),
               header_vsn_num |-> U32(img, data.off + 4),
               image_src |-> U32(img, data.off + 8),
               image_dest_ptr |-> U32(img, data.off + 12),
               image_size |-> U32(img, data.off + 16),
               code_size |-> U32(img, data.off + 20),
               signature_ptr |-> U32(img, data.off + 24),
               signature_size |-> U32(img, data.off + 28),
               cert_chain_ptr |-> U32(img, data.off + 32),
               cert_chain_size |-> U32(img, data.off + 36)])

_validate_mbn_header(header, offset, file_size) ==
    IF WIsZero(header.image_size) \/ WGtInt(header.image_size, file_size) THEN FALSE
    ELSE IF offset + WInt(header.image_size) > file_size THEN FALSE
    ELSE IF WGtInt(header.header_vsn_num, 10) THEN FALSE
    ELSE IF WLt(header.image_dest_ptr, W32(16384, 0))
            \/ WLt(W32(65535, 65535), header.image_dest_ptr) THEN FALSE
    ELSE TRUE

InRange32(w, lo, hi) == WLe(lo, w) /\ WLe(w, hi)

\* _detect_image_type(f, offset, header) for a validated header: the type, or
\* the exception raised by f.read() for a negative length below -1
_detect_image_type(img, offset, header) ==
    LET load_addr == header.image_dest_ptr
        n == Min2(512, WInt(header.image_size) - MBN_HEADER_SIZE)
        content == Read(img, offset + MBN_HEADER_SIZE, n)
    IN  IF InRange32(load_addr, W32(16384, 0), W32(20479, 65535))
        THEN [exc |-> "", image_type |-> "SBL"]
        ELSE IF InRange32(load_addr, W32(34304, 0), W32(34815, 65535))
        THEN [exc |-> "", image_type |-> "TZ"]
        ELSE IF InRange32(load_addr, W32(24576, 0), W32(28671, 65535))
        THEN [exc |-> "", image_type |-> "RPM"]
        ELSE IF InRange32(load_addr, W32(36704, 0), W32(36719, 65535))
        THEN [exc |-> "", image_type |-> "APPSBL"]
        ELSE IF ReadRaises(n) THEN [exc |-> "ValueError", image_type |-> "UNKNOWN"]
        ELSE IF Contains(img, content, ANDROID) THEN [exc |-> "", image_type |-> "BOOT"]
        ELSE IF Contains(img, content, LINUX) \/ Contains(img, content, VMLINUZ)
        THEN [exc |-> "", image_type |-> "BOOT"]
        ELSE [exc |-> "", image_type |-> "UNKNOWN"]

\* an alignment that rounds down to the 4 KiB boundary
AlignDown(n) == (n \div SCAN_STRIDE) * SCAN_STRIDE

\* (n + 4095) & ~4095
AlignUp(n) == ((n + (SCAN_STRIDE - 1)) \div SCAN_STRIDE) * SCAN_STRIDE

\* whether the analyzer runs the filesystem analysis on a new partition
WantsFsAnalysis(skip, partition) == ~skip /\ partition.size > FS_MIN_SIZE

\* the MBN partition built for an accepted header
MbnPartition(image_type, partition_count, offset, header) ==
    PartitionInfo(ImageTypeValue(image_type) \o <<95>> \o Dec(partition_count),
                  offset, WInt(header.image_size), image_type,
                  header.image_dest_ptr, header.image_dest_ptr)

\* the partition as appended by the scan: with its filesystem when analyzed
MbnPartitionWithFs(img, skip, partition) ==
    IF WantsFsAnalysis(skip, partition)
    THEN [partition EXCEPT !.filesystem =
             FilesystemAnalyze(img, partition.offset + MBN_HEADER_SIZE,
                               partition.offset + MBN_HEADER_SIZE,
                               partition.size - MBN_HEADER_SIZE).fs]
    ELSE partition

\* the filesystem regions analyzed so far, after the scan handled `partition`
MbnFsLog(skip, partition, log) ==
    IF WantsFsAnalysis(skip, partition)
    THEN Append(log, <<partition.offset + MBN_HEADER_SIZE,
                       partition.size - MBN_HEADER_SIZE>>)
    ELSE log

\* the while loop of _scan_mbn_images from cursor `offset` on: the exception
\* that ended it (if any), the partitions and the filesystem regions analyzed
RECURSIVE ScanMbnFrom(_, _, _, _, _, _, _)
ScanMbnFrom(img, file_size, skip, offset, partition_count, partitions, log) ==
    IF ~(offset < file_size - MBN_HEADER_SIZE)
    THEN [exc |-> "", partitions |-> partitions, log |-> log]
    ELSE IF Read(img, offset, MBN_HEADER_SIZE).len < MBN_HEADER_SIZE
    THEN [exc |-> "", partitions |-> partitions, log |-> log]
    ELSE Let(_parse_mbn_header(img, Read(img, offset, MBN_HEADER_SIZE)), LAMBDA mbn_header :
         IF mbn_header # None /\ _validate_mbn_header(mbn_header[1], offset, file_size)
         THEN Let(_detect_image_type(img, offset, mbn_header[1]), LAMBDA t :
              IF t.exc # ""
              THEN [exc |-> t.exc, partitions |-> partitions, log |-> log]
              ELSE Let(MbnPartition(t.image_type, partition_count, offset, mbn_header[1]),
                       LAMBDA partition :
                   ScanMbnFrom(img, file_size, skip, AlignUp(offset + partition.size),
                               partition_count + 1,
                               Append(partitions, MbnPartitionWithFs(img, skip, partition)),
                               MbnFsLog(skip, partition, log))))
         ELSE ScanMbnFrom(img, file_size, skip, offset + SCAN_STRIDE,
                          partition_count, partitions, log))

_scan_mbn_images(img, file_size, skip) ==
    ScanMbnFrom(img, file_size, skip, 0, 0, <<>>, <<>>)

\* the ELF segment built for a PT_LOAD program header
ElfPartition(i, p_offset, p_filesz, p_paddr) ==
    PartitionInfo(STR_segment \o Dec(i), WInt(p_offset), WInt(p_filesz), "UNKNOWN",
                  p_paddr, W32(0, 0))

\* the segment of program header ph (entry i), or None when the entry is
\* short, not PT_LOAD, or empty
ElfSegment(img, ph, i) ==
    IF ph.len >= 32 /\ U32(img, ph.off) = W32(0, 1) /\ ~WIsZero(U32(img, ph.off + 16))
    THEN Some(ElfPartition(i, U32(img, ph.off + 4), U32(img, ph.off + 16),
                           U32(img, ph.off + 12)))
    ELSE None

\* one iteration of the program header loop for segment `seg` read up to
\* position after_read: the new file position, partitions and log
ElfStep(img, skip, seg, after_read, partitions, log) ==
    IF seg = None
    THEN [pos |-> after_read, partitions |-> partitions, log |-> log]
    ELSE IF WantsFsAnalysis(skip, seg[1])
    THEN Let(FilesystemAnalyze(img, after_read, seg[1].offset, seg[1].size), LAMBDA fsr :
             [pos |-> fsr.pos,
              partitions |-> Append(partitions, [seg[1] EXCEPT !.filesystem = fsr.fs]),
              log |-> Append(log, <<seg[1].offset, seg[1].size>>)])
    ELSE [pos |-> after_read, partitions |-> Append(partitions, seg[1]), log |-> log]

\* the program header loop of _try_parse_elf from entry i on, the file object
\* being at position pos
RECURSIVE ElfLoop(_, _, _, _, _, _, _, _)
ElfLoop(img, skip, i, e_phnum, e_phentsize, pos, partitions, log) ==
    IF i >= e_phnum THEN [partitions |-> partitions, log |-> log]
    ELSE Let(ElfStep(img, skip, ElfSegment(img, Read(img, pos, e_phentsize), i),
                     pos + Read(img, pos, e_phentsize).len, partitions, log),
             LAMBDA step :
             ElfLoop(img, skip, i + 1, e_phnum, e_phentsize, step.pos,
                     step.partitions, step.log))

\* _try_parse_elf(f): whether the file is ELF, and the list it then leaves in
\* self.partitions
_try_parse_elf(img, skip) ==
    IF Read(img, 0, 52).len < 52 \/ Slice(img, Read(img, 0, 52), 0, 4) # ELF_MAGIC
    THEN [ok |-> FALSE, partitions |-> <<>>, log |-> <<>>]
    ELSE Let(ElfLoop(img, skip, 0, U16(img, 44), U16(img, 42), WInt(U32(img, 28)),
                     <<>>, <<>>),
             LAMBDA loop : [ok |-> TRUE, partitions |-> loop.partitions, log |-> loop.log])

_parse_custom_gang(img, file_size, skip) == _scan_mbn_images(img, file_size, skip)

\* the list a fallback scan returns, as a new object of the heap
ScanReturn(scan, selfp, hp) ==
    IF scan.exc # ""
    THEN [exc |-> scan.exc, ref |-> 0, selfp |-> selfp, heap |-> hp, log |-> scan.log]
    ELSE [exc |-> "", ref |-> Len(hp) + 1, selfp |-> selfp,
          heap |-> Append(hp, scan.partitions), log |-> scan.log]

\* _try_parse_elf appending to the list already held in self.partitions
ElfReturnReusing(elf, selfp, hp) ==
    IF selfp = 0
    THEN [exc |-> "", ref |-> Len(hp) + 1, selfp |-> Len(hp) + 1,
          heap |-> Append(hp, elf.partitions), log |-> elf.log]
    ELSE [exc |-> "", ref |-> selfp, selfp |-> selfp,
          heap |-> [hp EXCEPT ![selfp] = @ \o elf.partitions], log |-> elf.log]

\* the list _try_parse_elf built and left in self.partitions (till then
\* `selfp`), as a new object of the heap
ElfReturn(elf, selfp, hp) ==
    [exc |-> "", ref |-> Len(hp) + 1, selfp |-> Len(hp) + 1,
     heap |-> Append(hp, elf.partitions), log |-> elf.log]

\* _parse_gang_image(f) on an analyzer whose self.partitions is `selfp` in heap
\* `hp`: the list returned (a reference into the new heap), the new
\* self.partitions, or the exception raised
_parse_gang_image(img, file_size, skip, selfp, hp) ==
    Let(_try_parse_elf(img, skip), LAMBDA elf :
        IF elf.ok THEN ElfReturn(elf, selfp, hp)
        ELSE ScanReturn(_parse_custom_gang(img, file_size, skip), selfp, hp))


\* the value analyze() hands to its caller: an AnalysisResult, or the
\* exception raised (exc) with the exception it was raised from (cause)
Returned(result) == [exc |-> "", cause |-> "", result |-> Some(result)]

Raised(exc, cause) == [exc |-> exc, cause |-> cause, result |-> None]

\* AnalysisResult; partitions is a reference to the list object in the heap
AnalysisResult(file_size, ref, partitions, validation_errors, warnings) ==
    [file_size |-> file_size, partitions |-> ref,
     total_partition_size |-> TotalPartitionSize(partitions),
     total_filesystem_used |-> TotalFilesystemUsed(partitions),
     validation_errors |-> validation_errors, warnings |-> warnings]

QUALCOMM_WARNING == "Gang header not found, scanning for individual MBN images"

\* a discovery outcome together with the warnings recorded on its path
WithWarnings(d, warnings) ==
    [exc |-> d.exc, ref |-> d.ref, selfp |-> d.selfp, heap |-> d.heap, log |-> d.log,
     warnings |-> warnings]

\* the body of the with-block of QualcommAnalyzer.analyze after can_handle
\* succeeded: the list of partitions (as a heap reference) and the warnings
QualcommDiscover(img, file_size, skip, selfp, hp) ==
    IF _detect_gang_format(img, 4).result
    THEN WithWarnings(_parse_gang_image(img, file_size, skip, selfp, hp), <<>>)
    ELSE WithWarnings(ScanReturn(_scan_mbn_images(img, file_size, skip), selfp, hp),
                      <<QUALCOMM_WARNING>>)

\* raise AnalysisError(...) without the exception it came from
RaiseUnchained(exc) == Raised("AnalysisError", "")

\* the exception analyze() lets out when `exc` is raised inside its try block
WrapException(exc) == Raised("AnalysisError", exc)

\* what analyze() returns for the partitions discovered in `d`, with the
\* diagnostics of _validate_partitions
AnalyzeReturn(file_size, d, partitions, validation_errors) ==
    [out |-> Returned(AnalysisResult(file_size, d.ref, partitions, validation_errors,
                                     d.warnings)),
     selfp |-> d.selfp, heap |-> d.heap, log |-> d.log]

\* the discovery's exception leaving analyze() as it is
AnalyzeRaiseBare(d) ==
    [out |-> Raised(d.exc, ""), selfp |-> d.selfp, heap |-> d.heap, log |-> d.log]

\* what analyze() raises when the discovery in `d` raised
AnalyzeRaise(d) ==
    [out |-> WrapException(d.exc), selfp |-> d.selfp, heap |-> d.heap, log |-> d.log]

\* QualcommAnalyzer.analyze(): what it returns or raises (out), and the new
\* self.partitions, heap and filesystem-analysis log
QualcommAnalyze(img, file_size, skip, selfp, hp) ==
    IF ~QualcommCanHandle(img, 0).result
    THEN [out |-> WrapException("UnsupportedFormatError"),
          selfp |-> selfp, heap |-> hp, log |-> <<>>]
    ELSE Let(QualcommDiscover(img, file_size, skip, selfp, hp), LAMBDA d :
         IF d.exc # "" THEN AnalyzeRaise(d)
         ELSE Let(d.heap[d.ref], LAMBDA partitions :
              AnalyzeReturn(file_size, d, partitions,
                            QualcommValidatePartitions(partitions, file_size))))

-----------------------------------------------------------------------------
(* NVIDIAAnalyzer *)

\* NVIDIA_MAGICS + [GPT_SIGNATURE]
ALL_SIGNATURES == NVIDIA_MAGICS \o <<GPT_SIGNATURE>>

\* a can_handle that looks for signatures in the first 512 bytes only
NVIDIACanHandleHeaderOnly(img, pos) ==
    LET header == Read(img, 0, 512)
        gpt_header == Read(img, 512, 8)
    IN  IF ContainsAny(img, header, NVIDIA_MAGICS)
        THEN [result |-> TRUE, pos |-> header.off + header.len]
        ELSE [result |-> Slice(img, gpt_header, 0, 8) = GPT_SIGNATURE,
              pos |-> gpt_header.off + gpt_header.len]

\* can_handle(f) with the file object at position pos: the answer and the
\* position the file object is left at
NVIDIACanHandle(img, pos) ==
    LET header == Read(img, 0, 512)
        gpt_header == Read(img, 512, 8)
        chunk == Read(img, 0, 65536)
    IN  IF ContainsAny(img, header, NVIDIA_MAGICS)
        THEN [result |-> TRUE, pos |-> header.off + header.len]
        ELSE IF Slice(img, gpt_header, 0, 8) = GPT_SIGNATURE
        THEN [result |-> TRUE, pos |-> gpt_header.off + gpt_header.len]
        ELSE [result |-> ContainsAny(img, chunk, NVIDIA_MAGICS),
              pos |-> chunk.off + chunk.len]

BCT_OFFSETS == <<0, 512, 1024, 2048, 4096>>

BCT_SIZES == <<4096, 8192, 16384>>

\* the loop of _estimate_bct_size from candidate k on
RECURSIVE EstimateBctFrom(_, _, _)
EstimateBctFrom(img, offset, k) ==
    IF k > Len(BCT_SIZES) THEN 4096 * 4
    ELSE IF ContainsAny(img, Read(img, offset + BCT_SIZES[k], 512), ALL_SIGNATURES)
         THEN BCT_SIZES[k]
         ELSE EstimateBctFrom(img, offset, k + 1)

\* an estimate that always answers the default minimum
MinimumBctSize(img, offset) == 4096

_estimate_bct_size(img, offset) == EstimateBctFrom(img, offset, 1)

\* the loop of _detect_bct from candidate k on: Optional[PartitionInfo]
RECURSIVE DetectBctFrom(_, _)
DetectBctFrom(img, k) ==
    IF k > Len(BCT_OFFSETS) THEN None
    ELSE LET offset == BCT_OFFSETS[k]
             header == Read(img, offset, 16)
         IN  IF header.len >= 4 /\ Slice(img, header, 0, 4) \in {BCT0, NVDA}
             THEN Some(PartitionInfo(STR_BCT, offset, _estimate_bct_size(img, offset),
                                     "UNKNOWN", W32(0, 0), W32(0, 0)))
             ELSE DetectBctFrom(img, k + 1)

_detect_bct(img) == DetectBctFrom(img, 1)

\* bytes.decode("utf-16le") of a sequence of 16-bit code units: the text, or
\* ok = FALSE for UnicodeDecodeError (a surrogate without its partner)
RECURSIVE Utf16Decode(_)
Utf16Decode(units) ==
    IF units = <<>> THEN [ok |-> TRUE, text |-> <<>>]
    ELSE LET u == Head(units)
             paired == /\ u >= 55296 /\ u <= 56319 /\ Len(units) >= 2
                       /\ units[2] >= 56320 /\ units[2] <= 57343
             rest == Utf16Decode(IF paired THEN Tail(Tail(units)) ELSE Tail(units))
             cp == IF paired THEN 65536 + (u - 55296) * 1024 + (units[2] - 56320) ELSE u
         IN  IF u >= 55296 /\ u <= 57343 /\ ~paired THEN [ok |-> FALSE, text |-> <<>>]
             ELSE [ok |-> rest.ok, text |-> IF rest.ok THEN <<cp>> \o rest.text ELSE <<>>]

\* str.rstrip("\x00")
RECURSIVE RStripNul(_)
RStripNul(s) ==
    IF s # <<>> /\ s[Len(s)] = 0 THEN RStripNul(SubSeq(s, 1, Len(s) - 1)) ELSE s

STR_bct == <<98, 99, 116>>
STR_mb1 == <<109, 98, 49>>
STR_bootloader == <<98, 111, 111, 116, 108, 111, 97, 100, 101, 114>>
STR_mb2 == <<109, 98, 50>>
STR_tegraboot == <<116, 101, 103, 114, 97, 98, 111, 111, 116>>
STR_cboot == <<99, 98, 111, 111, 116>>
STR_bpmp == <<98, 112, 109, 112>>
STR_tos == <<116, 111, 115>>
STR_trustzone == <<116, 114, 117, 115, 116, 122, 111, 110, 101>>
STR_kernel == <<107, 101, 114, 110, 101, 108>>
STR_boot == <<98, 111, 111, 116>>
STR_rootfs == <<114, 111, 111, 116, 102, 115>>
STR_system == <<115, 121, 115, 116, 101, 109>>
STR_app == <<97, 112, 112>>
STR_recovery == <<114, 101, 99, 111, 118, 101, 114, 121>>

_detect_tegra_image_type(name, guid) ==
    LET name_lower == Lower(name)
        has(x) == SubStr(x, name_lower)
    IN  IF has(STR_bct) THEN "UNKNOWN"
        ELSE IF has(STR_mb1) \/ has(STR_bootloader) THEN "SBL"
        ELSE IF has(STR_mb2) \/ has(STR_tegraboot) THEN "APPSBL"
        ELSE IF has(STR_cboot) THEN "APPSBL"
        ELSE IF has(STR_bpmp) THEN "RPM"
        ELSE IF has(STR_tos) \/ has(STR_trustzone) THEN "TZ"
        ELSE IF has(STR_kernel) \/ has(STR_boot) THEN "BOOT"
        ELSE IF has(STR_rootfs) \/ has(STR_system) \/ has(STR_app) THEN "UNKNOWN"
        ELSE IF has(STR_recovery) THEN "BOOT"
        ELSE "UNKNOWN"

LBA_SIZE == 512

GPT_ENTRY_SIZE == 128

\* _parse_gpt_entry(entry, index): Optional[PartitionInfo]
_parse_gpt_entry(img, entry, index) ==
    LET partition_type_guid == Slice(img, entry, 0, 16)
        first_lba == IntLE(img, entry.off + 32, 8)
        last_lba == IntLE(img, entry.off + 40, 8)
        units == [k \in 1 .. 36 |-> U16(img, entry.off + 56 + 2 * (k - 1))]
        decoded == Utf16Decode(units)
        stripped == RStripNul(decoded.text)
        name == IF stripped = <<>> THEN STR_partition \o Dec(index) ELSE stripped
        partition_size == (last_lba - first_lba + 1) * LBA_SIZE
    IN  IF entry.len < GPT_ENTRY_SIZE THEN None
        ELSE IF partition_type_guid = [k \in 1 .. 16 |-> 0] THEN None
        ELSE IF ~decoded.ok THEN None
        ELSE Some(PartitionInfo(name, first_lba * LBA_SIZE, partition_size,
                                _detect_tegra_image_type(name, partition_type_guid),
                                W32(0, 0), W32(0, 0)))

\* one iteration of the entry loop for the parsed entry, read up to position
\* after_read: the new file position, partitions and log
GptStep(img, skip, parsed, after_read, partitions, log) ==
    IF parsed = None
    THEN [pos |-> after_read, partitions |-> partitions, log |-> log]
    ELSE IF WantsFsAnalysis(skip, parsed[1])
    THEN Let(FilesystemAnalyze(img, after_read, parsed[1].offset, parsed[1].size),
             LAMBDA fsr :
             [pos |-> fsr.pos,
              partitions |-> Append(partitions, [parsed[1] EXCEPT !.filesystem = fsr.fs]),
              log |-> Append(log, <<parsed[1].offset, parsed[1].size>>)])
    ELSE [pos |-> after_read, partitions |-> Append(partitions, parsed[1]), log |-> log]

\* the entry loop of _parse_gpt_partitions from entry i on, the file object
\* being at position pos
RECURSIVE GptLoop(_, _, _, _, _, _, _, _)
GptLoop(img, skip, i, num_partition_entries, partition_entry_size, pos, partitions, log) ==
    IF i >= num_partition_entries THEN [partitions |-> partitions, log |-> log]
    ELSE IF Read(img, pos, partition_entry_size).len < GPT_ENTRY_SIZE
    THEN [partitions |-> partitions, log |-> log]
    ELSE Let(GptStep(img, skip,
                     _parse_gpt_entry(img, Read(img, pos, partition_entry_size), i),
                     pos + Read(img, pos, partition_entry_size).len, partitions, log),
             LAMBDA step :
             GptLoop(img, skip, i + 1, num_partition_entries, partition_entry_size,
                     step.pos, step.partitions, step.log))

_parse_gpt_partitions(img, skip) ==
    LET gpt_header == Read(img, 512, 92)
        partition_entry_lba == IntLE(img, 512 + 72, 8)
        num_partition_entries == IntLE(img, 512 + 80, 4)
        partition_entry_size == IntLE(img, 512 + 84, 4)
    IN  IF gpt_header.len < 92 \/ Slice(img, gpt_header, 0, 8) # GPT_SIGNATURE
        THEN [partitions |-> <<>>, log |-> <<>>]
        ELSE GptLoop(img, skip, 0, num_partition_entries, partition_entry_size,
                     partition_entry_lba * LBA_SIZE, <<>>, <<>>)

MAX_EXTENT_SCAN == 67108864

DEFAULT_EXTENT == 16777216

\* _estimate_partition_size(f, offset): the first scan_offset of
\* range(512, max_scan, 4096) whose 512-byte window holds a signature, else
\* min(16 MiB, file_size - offset)
_estimate_partition_size(img, file_size, offset) ==
    LET max_scan == Min2(MAX_EXTENT_SCAN, file_size - offset)
        steps == IF max_scan > 512 THEN 0 .. ((max_scan - 513) \div SCAN_STRIDE) ELSE {}
        hits == {k \in steps :
                    ContainsAny(img, Read(img, offset + 512 + k * SCAN_STRIDE, 512),
                                ALL_SIGNATURES)}
    IN  IF hits # {} THEN 512 + SetMin(hits) * SCAN_STRIDE
        ELSE Min2(DEFAULT_EXTENT, file_size - offset)

\* the first magic of NVIDIA_MAGICS, in list order, that the chunk contains
\* (0 when it contains none)
FirstMagicIn(img, chunk) ==
    LET found == {m \in 1 .. Len(NVIDIA_MAGICS) : Contains(img, chunk, NVIDIA_MAGICS[m])}
    IN  IF found = {} THEN 0 ELSE SetMin(found)

\* the partition the signature scan records at actual_offset
NvidiaPartition(partition_count, actual_offset, size) ==
    PartitionInfo(STR_nvidia_partition \o Dec(partition_count), actual_offset, size,
                  "UNKNOWN", W32(0, 0), W32(0, 0))

\* the while loop of _scan_nvidia_partitions from cursor `offset` on
RECURSIVE ScanNvidiaFrom(_, _, _, _, _)
ScanNvidiaFrom(img, file_size, offset, partition_count, partitions) ==
    IF ~(offset < file_size - 512) THEN partitions
    ELSE IF Read(img, offset, 512).len < 512 THEN partitions
    ELSE Let(FirstMagicIn(img, Read(img, offset, 512)), LAMBDA m :
         IF m # 0
         THEN Let(offset + Find(img, Read(img, offset, 512), NVIDIA_MAGICS[m]),
                  LAMBDA actual_offset :
              Let(_estimate_partition_size(img, file_size, actual_offset), LAMBDA size :
                  ScanNvidiaFrom(img, file_size, actual_offset + size, partition_count + 1,
                                 Append(partitions,
                                        NvidiaPartition(partition_count, actual_offset,
                                                        size)))))
         ELSE ScanNvidiaFrom(img, file_size, offset + SCAN_STRIDE, partition_count,
                             partitions))

_scan_nvidia_partitions(img, file_size) == ScanNvidiaFrom(img, file_size, 0, 0, <<>>)

NVIDIA_WARNING == "GPT not found, scanning for partition signatures"

\* the partitions found after the BCT: those of the GPT, or, when the GPT
\* gave none, those of the signature scan together with the warning
NVIDIADiscover(img, file_size, gpt) ==
    IF gpt.partitions # <<>>
    THEN [partitions |-> gpt.partitions, warnings |-> <<>>, log |-> gpt.log]
    ELSE [partitions |-> _scan_nvidia_partitions(img, file_size),
          warnings |-> <<NVIDIA_WARNING>>, log |-> gpt.log]

\* the AnalysisResult of NVIDIAAnalyzer.analyze for the partitions found
NVIDIAReturn(file_size, selfp, hp, partitions, warnings, log) ==
    [out |-> Returned(AnalysisResult(file_size, Len(hp) + 1, partitions,
                                     NVIDIAValidatePartitions(partitions, file_size),
                                     warnings)),
     selfp |-> selfp, heap |-> Append(hp, partitions), log |-> log]

\* NVIDIAAnalyzer.analyze(): what it returns or raises (out), and the new
\* heap and filesystem-analysis log; self.partitions is not touched
NVIDIAAnalyze(img, file_size, skip, selfp, hp) ==
    IF ~NVIDIACanHandle(img, 0).result
    THEN [out |-> WrapException("UnsupportedFormatError"),
          selfp |-> selfp, heap |-> hp, log |-> <<>>]
    ELSE Let(NVIDIADiscover(img, file_size, _parse_gpt_partitions(img, skip)), LAMBDA d :
             NVIDIAReturn(file_size, selfp, hp, _detect_bct(img) \o d.partitions,
                          d.warnings, d.log))

-----------------------------------------------------------------------------
(* GangImageAnalyzer.extract_partition *)

\* the first partition of the list named partition_name: its index, 0 if none
FirstNamed(partitions, partition_name) ==
    LET found == {k \in 1 .. Len(partitions) : partitions[k].name = partition_name}
    IN  IF found = {} THEN 0 ELSE SetMin(found)

\* [p.name for p in result.partitions]
AvailableNames(partitions) == [k \in 1 .. Len(partitions) |-> partitions[k].name]

\* the bytes of a chunk as a file content of their own
ChunkContent(img, chunk) ==
    LET kept == {i \in DOMAIN img.data : i >= chunk.off /\ i < chunk.off + chunk.len}
    IN  [size |-> chunk.len,
         data |-> [j \in {i - chunk.off : i \in kept} |-> img.data[j + chunk.off]]]

\* the destination file: not opened (left as it was), or written with content
NotOpened == [opened |-> FALSE, content |-> [size |-> 0, data |-> [j \in {} |-> 0]]]

Written(content) == [opened |-> TRUE, content |-> content]

\* the exception extract_partition raises for a missing name
NotFoundError(partition_name, available) ==
    [exc |-> "AnalysisError", cause |-> "", text |-> "Partition not found. Available:",
     name |-> partition_name, available |-> available]

\* the exception raised when reading or writing fails
ExtractingError(cause) ==
    [exc |-> "AnalysisError", cause |-> cause, text |-> "Error extracting partition",
     name |-> <<>>, available |-> <<>>]

\* the exception of analyze() passing through extract_partition
Propagated(out) ==
    [exc |-> out.exc, cause |-> out.cause, text |-> "Error analyzing", name |-> <<>>,
     available |-> <<>>]

NoError == [exc |-> "", cause |-> "", text |-> "", name |-> <<>>, available |-> <<>>]

\* the try block of extract_partition for the partition found: the error
\* raised (if any) and what happens to output_file
ExtractChosen(img, partition) ==
    IF ReadRaises(partition.size)
    THEN [err |-> ExtractingError("ValueError"), chosen |-> Some(partition),
          dest |-> NotOpened]
    ELSE [err |-> NoError, chosen |-> Some(partition),
          dest |-> Written(ChunkContent(img, Read(img, partition.offset, partition.size)))]

\* the part of extract_partition after analyze() returned `partitions`: the
\* error raised (if any), the partition chosen and what happens to output_file
ExtractFrom(img, partitions, partition_name) ==
    Let(FirstNamed(partitions, partition_name), LAMBDA k :
        IF k = 0
        THEN [err |-> NotFoundError(partition_name, AvailableNames(partitions)),
              chosen |-> None, dest |-> NotOpened]
        ELSE ExtractChosen(img, partitions[k]))

-----------------------------------------------------------------------------
(* Image files the analyzers are run on *)

Blank(size) == [size |-> size, data |-> [i \in {} |-> 0]]

\* the file with `bytes` written at position pos
Put(img, pos, bytes) ==
    [img EXCEPT !.data = [i \in pos .. (pos + Len(bytes) - 1) |-> bytes[i - pos + 1]] @@ @]

\* struct.pack of an integer into k little-endian bytes
RECURSIVE LE(_, _)
LE(n, k) == IF k = 0 THEN <<>> ELSE <<n % 256>> \o LE(n \div 256, k - 1)

\* struct.pack("<I", ...) of a 32-bit value given as halves
LE32(w) == LE(w.lo, 2) \o LE(w.hi, 2)

\* str.encode("utf-16le") for text of the basic plane
Utf16(text) == [k \in 1 .. 2 * Len(text) |->
                   IF k % 2 = 1 THEN text[(k + 1) \div 2] % 256
                   ELSE text[k \div 2] \div 256]

UNKN_MAGIC == <<85, 78, 75, 78>>

\* a 40-byte MBN header as create_mbn_partition packs it (fields after
\* image_size left 0)
MbnHeader(image_id, vsn, dest_ptr, image_size) ==
    image_id \o LE(vsn, 4) \o LE(0, 4) \o LE32(dest_ptr) \o LE(image_size, 4)

ADDR_SBL == W32(16384, 0)

ADDR_LOW == W32(16383, 65535)

ADDR_OTHER == W32(20480, 0)

ADDR_TZ == W32(34304, 0)

MbnVariants ==
    {[vsn |-> 3, dest |-> ADDR_SBL, image_size |-> 4136],
     [vsn |-> 3, dest |-> ADDR_SBL, image_size |-> 4096],
     [vsn |-> 3, dest |-> ADDR_SBL, image_size |-> 1000],
     [vsn |-> 3, dest |-> ADDR_SBL, image_size |-> 8192],
     [vsn |-> 3, dest |-> ADDR_SBL, image_size |-> 0],
     [vsn |-> 11, dest |-> ADDR_SBL, image_size |-> 4096],
     [vsn |-> 3, dest |-> ADDR_LOW, image_size |-> 4096],
     [vsn |-> 3, dest |-> ADDR_TZ, image_size |-> 4096],
     [vsn |-> 3, dest |-> ADDR_OTHER, image_size |-> 4096],
     [vsn |-> 3, dest |-> ADDR_OTHER, image_size |-> 39],
     [vsn |-> 3, dest |-> ADDR_OTHER, image_size |-> 20]}

\* a file of `size` bytes starting with `magic` and holding one MBN header at h
MbnImage(size, magic, h, v) ==
    Put(Put(Blank(size), 0, magic), h,
        MbnHeader(IF h = 0 THEN magic ELSE ZERO_MAGIC, v.vsn, v.dest, v.image_size))

SmallMbnImages ==
    {MbnImage(size, magic, h, v) :
        size \in {8192, 12288}, magic \in {GANG_MAGIC, ZERO_MAGIC, UNKN_MAGIC},
        h \in {0, 4096}, v \in MbnVariants}

\* consecutive MBN images, and images whose content names a kernel
MultiMbnImages ==
    LET sbl(n) == MbnHeader(ZERO_MAGIC, 3, ADDR_SBL, n)
        other(n) == MbnHeader(ZERO_MAGIC, 3, ADDR_OTHER, n)
        a == Put(Blank(12288), 0, sbl(4096))
        q == Put(Blank(12288), 0, MbnHeader(QCOM_MAGIC, 3, ADDR_OTHER, 4096))
    IN  {Put(a, 4096, sbl(4096)),
         Put(Put(a, 4096, sbl(4096)), 8192, other(2048)),
         Put(a, 4096, sbl(8192)),
         Put(q, 100, ANDROID),
         Put(q, 600, LINUX),
         Put(Put(a, 4096, other(4096)), 4096 + 40 + 8, VMLINUZ)}

\* a 96-byte SquashFS superblock as create_squashfs_rootfs packs it
SquashfsSuperblock(magic, block_size, bytes_used) ==
    IF magic = HSQS
    THEN [k \in 1 .. 48 |->
             IF k <= 4 THEN magic[k]
             ELSE IF k \in 13 .. 16 THEN LE(block_size, 4)[k - 12]
             ELSE IF k \in 41 .. 48 THEN LE(bytes_used, 8)[k - 40]
             ELSE 0]
    ELSE [k \in 1 .. 48 |->
             IF k <= 4 THEN magic[k]
             ELSE IF k \in 13 .. 16 THEN LE(block_size, 4)[17 - k]
             ELSE IF k \in 41 .. 48 THEN LE(bytes_used, 8)[49 - k]
             ELSE 0]

\* region contents that the filesystem probes tell apart
FsContents ==
    {<<>>, SquashfsSuperblock(HSQS, 131072, 1024), SquashfsSuperblock(SQSH, 4096, 8192),
     SquashfsSuperblock(HSQS, 0, 1024), UBI_MAGIC, <<133, 25>>}

\* a little over 1 MiB
BIG_FILE == FS_MIN_SIZE + 2 * SCAN_STRIDE

\* one MBN image of about 1 MiB with a filesystem behind its header
BigMbnImages ==
    {Put(Put(Blank(BIG_FILE), 0, MbnHeader(ZERO_MAGIC, 3, ADDR_SBL, n)), 40, c) :
        n \in {1048576, 1048577, 1052672}, c \in FsContents}

\* an ELF32 header with its program header table at 52, entries of 32 bytes
ElfHeader(e_phentsize, e_phnum) ==
    [k \in 1 .. 46 |->
        IF k <= 4 THEN ELF_MAGIC[k]
        ELSE IF k = 29 THEN 52
        ELSE IF k \in 43 .. 44 THEN LE(e_phentsize, 2)[k - 42]
        ELSE IF k \in 45 .. 46 THEN LE(e_phnum, 2)[k - 44]
        ELSE 0]

\* a program header: p_type, p_offset, p_vaddr, p_paddr, p_filesz, p_memsz
ProgramHeader(e) ==
    LE(e.type, 4) \o LE(e.offset, 4) \o LE(0, 4) \o LE32(ADDR_SBL) \o LE(e.filesz, 4)
    \o LE(e.filesz, 4)

ElfEntries ==
    {[type |-> 1, offset |-> 4096, filesz |-> 2048],
     [type |-> 1, offset |-> 4096, filesz |-> 8192],
     [type |-> 1, offset |-> 2048, filesz |-> 4096],
     [type |-> 2, offset |-> 4096, filesz |-> 2048],
     [type |-> 1, offset |-> 4096, filesz |-> 0]}

ElfImage(size, e_phentsize, entries) ==
    LET hdr == Put(Blank(size), 0, ElfHeader(e_phentsize, Len(entries)))
        put[k \in 0 .. Len(entries)] ==
            IF k = 0 THEN hdr
            ELSE Put(put[k - 1], 52 + (k - 1) * e_phentsize, ProgramHeader(entries[k]))
    IN  put[Len(entries)]

ElfImages ==
    {ElfImage(8192, 32, <<>>)}
    \cup {ElfImage(8192, 32, <<e>>) : e \in ElfEntries}
    \cup {ElfImage(8192, 32, <<e1, e2>>) : e1 \in ElfEntries, e2 \in ElfEntries}
    \cup {ElfImage(8192, 16, <<e>>) : e \in ElfEntries}
    \cup {ElfImage(8192, 40, <<e1, e2>>) : e1 \in ElfEntries, e2 \in ElfEntries}
    \cup {Put(ElfImage(12288, 32, <<e>>), 4096, MbnHeader(ZERO_MAGIC, 3, ADDR_SBL, 4096)) :
             e \in ElfEntries}
    \cup {Put(ElfImage(BIG_FILE, 32,
                       <<[type |-> 1, offset |-> 4096, filesz |-> n],
                         [type |-> 1, offset |-> 2048, filesz |-> 2048]>>), 4096, c) :
             n \in {1048576, 1048577}, c \in FsContents}


\* a GPT header (at LBA 1) with its entry table at LBA 2
GptHeader(num_entries, entry_size) ==
    [k \in 1 .. 88 |->
        IF k <= 8 THEN GPT_SIGNATURE[k]
        ELSE IF k = 73 THEN 2
        ELSE IF k \in 81 .. 84 THEN LE(num_entries, 4)[k - 80]
        ELSE IF k \in 85 .. 88 THEN LE(entry_size, 4)[k - 84]
        ELSE 0]

\* a 128-byte GPT entry: type GUID, first and last LBA, UTF-16LE name
GptEntry(e) ==
    [k \in 1 .. 16 |-> e.guid] \o [k \in 1 .. 16 |-> 2]
    \o LE(e.first_lba, 8) \o LE(e.last_lba, 8) \o LE(0, 8) \o Utf16(e.name)

STR_data == <<100, 97, 116, 97>>

STR_Kernel == <<75, 101, 114, 110, 101, 108>>

\* a name field whose only code unit is the high surrogate 0xD800
LONE_SURROGATE == <<55296>>

GptEntries ==
    {[guid |-> 1, first_lba |-> 8, last_lba |-> 15, name |-> STR_data],
     [guid |-> 1, first_lba |-> 12, last_lba |-> 23, name |-> STR_Kernel],
     [guid |-> 1, first_lba |-> 16, last_lba |-> 47, name |-> STR_BCT],
     [guid |-> 1, first_lba |-> 16, last_lba |-> 8, name |-> STR_rootfs],
     [guid |-> 1, first_lba |-> 8, last_lba |-> 6, name |-> STR_data],
     [guid |-> 1, first_lba |-> 24, last_lba |-> 24, name |-> <<>>],
     [guid |-> 0, first_lba |-> 8, last_lba |-> 15, name |-> STR_data],
     [guid |-> 1, first_lba |-> 8, last_lba |-> 15, name |-> LONE_SURROGATE]}

GptImage(size, magic, entry_size, entries) ==
    LET hdr == Put(Put(Blank(size), 0, magic), 512, GptHeader(Len(entries), entry_size))
        put[k \in 0 .. Len(entries)] ==
            IF k = 0 THEN hdr
            ELSE Put(put[k - 1], 1024 + (k - 1) * entry_size, GptEntry(entries[k]))
    IN  put[Len(entries)]

BIG_GPT_FILE == 2 * FS_MIN_SIZE

GptImages ==
    {GptImage(16384, m, 128, <<>>) : m \in {ZERO_MAGIC, NVDA}}
    \cup {GptImage(16384, m, 128, <<e>>) : m \in {ZERO_MAGIC, NVDA, UNKN_MAGIC}, e \in GptEntries}
    \cup {GptImage(16384, ZERO_MAGIC, 128, <<e1, e2>>) : e1 \in GptEntries, e2 \in GptEntries}
    \cup {GptImage(16384, ZERO_MAGIC, 256, <<e1, e2>>) : e1 \in GptEntries, e2 \in GptEntries}
    \cup {GptImage(1200, ZERO_MAGIC, 128, <<e, e>>) : e \in GptEntries}
    \cup {Put(GptImage(BIG_GPT_FILE, NVDA, 128,
                       <<[guid |-> 1, first_lba |-> 2048, last_lba |-> l, name |-> STR_rootfs],
                         [guid |-> 1, first_lba |-> 8, last_lba |-> 15, name |-> STR_data]>>),
              1048576, c) :
             l \in {4094, 4095, 4096}, c \in FsContents}

NvidiaSignatures ==
    {[pos |-> 0, magic |-> NVDA], [pos |-> 0, magic |-> BCT0],
     [pos |-> 512, magic |-> BCT0], [pos |-> 100, magic |-> TEGR],
     [pos |-> 4096, magic |-> NV3P], [pos |-> 5000, magic |-> TEGR],
     [pos |-> 8192, magic |-> GPT_SIGNATURE], [pos |-> 20000, magic |-> NVDA]}

\* files without a GPT that hold one or two signatures
SignatureImages ==
    {Put(Put(Blank(size), s1.pos, s1.magic), s2.pos, s2.magic) :
        size \in {600, 8192, 32768}, s1 \in NvidiaSignatures,
        s2 \in {s \in NvidiaSignatures : s.pos + Len(s.magic) <= 600}}
    \cup {Put(Put(Blank(BIG_FILE), 0, NVDA), 1048576, c) : c \in {<<>>, TEGR}}

\* a signature written past the end of a short file is not part of the file
Truncate(img) ==
    [img EXCEPT !.data = [i \in {j \in DOMAIN img.data : j < img.size} |-> img.data[i]]]

Images ==
    {Truncate(img) : img \in SmallMbnImages \cup MultiMbnImages \cup BigMbnImages
                             \cup ElfImages \cup GptImages \cup SignatureImages}

-----------------------------------------------------------------------------
(* The analyzer object and its operations *)

Platforms == {"qualcomm", "nvidia"}

\* analyze() of the analyzer class constructed for `plat`
AnalyzerAnalyze(plat, img, file_size, skip, selfp, hp) ==
    IF plat = "qualcomm" THEN QualcommAnalyze(img, file_size, skip, selfp, hp)
    ELSE NVIDIAAnalyze(img, file_size, skip, selfp, hp)

\* can_handle() of the analyzer class constructed for `plat`, on a fresh file object
AnalyzerCanHandle(plat, img) ==
    IF plat = "qualcomm" THEN QualcommCanHandle(img, 0).result
    ELSE NVIDIACanHandle(img, 0).result

\* what extract_partition does once analyze() has produced `a`
ExtractAfter(img, a, partition_name) ==
    IF a.out.exc # ""
    THEN [err |-> Propagated(a.out), chosen |-> None, dest |-> NotOpened,
          selfp |-> a.selfp, heap |-> a.heap, log |-> a.log]
    ELSE Let(ExtractFrom(img, a.heap[a.out.result[1].partitions], partition_name),
             LAMBDA x :
             [err |-> x.err, chosen |-> x.chosen, dest |-> x.dest,
              selfp |-> a.selfp, heap |-> a.heap, log |-> a.log])

\* extract_partition(partition_name, output_file): the error raised (if
\* any), the partition chosen, what happens to output_file, and the state
\* analyze() leaves behind
ExtractPartition(plat, img, file_size, skip, selfp, hp, partition_name) ==
    ExtractAfter(img, AnalyzerAnalyze(plat, img, file_size, skip, selfp, hp),
                 partition_name)

\* what the last call did: its operation, what analyze() returned or raised,
\* and for extract_partition the name asked for, the partition found, the
\* error raised and what the call did to output_file
NoOutcome ==
    [op |-> "none", out |-> Raised("", ""), err |-> NoError, chosen |-> None,
     name |-> <<>>, written |-> NotOpened]

NoInput == [partitions |-> <<>>, file_size |-> 0]

NoArguments == [offset |-> 0, size |-> 0]

\* names asked for by callers of extract_partition
STR_nope == <<110, 111, 112, 101>>

RequestNames ==
    {ImageTypeValue("SBL") \o <<95>> \o Dec(0), STR_segment \o Dec(0),
     STR_nvidia_partition \o Dec(0), STR_BCT, STR_data, STR_rootfs, STR_nope}

\* the analyzer after its constructor ran on an existing file
InitAnalyzer ==
    /\ image \in Images
    /\ platform \in Platforms
    /\ skip_fs \in BOOLEAN
    /\ self_partitions = 0
    /\ heap = <<>>
    /\ results = <<>>
    /\ outcome = NoOutcome
    /\ dest = NotOpened
    /\ fs_log = <<>>
    /\ calls = 0
    /\ vin = NoInput
    /\ vout = <<>>
    /\ fpos = 0
    /\ din = NoArguments
    /\ dout = <<>>
    /\ sniffs = <<>>
    /\ selected = <<>>
    /\ scanning = "idle"
    /\ cursor = 0
    /\ emitted = <<>>
    /\ called = "none"
    /\ args = <<>>
    /\ returned = <<>>

\* the analyzer and caller state after analyze() produced `a`
AnalyzeEffect(a) ==
    /\ self_partitions' = a.selfp
    /\ heap' = a.heap
    /\ fs_log' = a.log
    /\ results' = IF a.out.exc = "" THEN Append(results, a.out.result[1]) ELSE results
    /\ outcome' = [NoOutcome EXCEPT !.op = "analyze", !.out = a.out]

\* result = analyzer.analyze()
Analyze ==
    /\ calls < MaxCalls
    /\ AnalyzeEffect(AnalyzerAnalyze(platform, image, image.size, skip_fs,
                                     self_partitions, heap))
    /\ calls' = calls + 1
    /\ UNCHANGED <<image, platform, skip_fs, dest, vin, vout, fpos, din, dout, sniffs, selected,
                   scanning, cursor, emitted, called, args, returned>>

\* the analyzer and caller state after extract_partition produced `x`
ExtractEffect(x, name) ==
    /\ self_partitions' = x.selfp
    /\ heap' = x.heap
    /\ fs_log' = x.log
    /\ dest' = IF x.dest.opened THEN x.dest ELSE dest
    /\ outcome' = [NoOutcome EXCEPT !.op = "extract", !.err = x.err,
                                    !.chosen = x.chosen, !.name = name,
                                    !.written = x.dest]

\* analyzer.extract_partition(name, output_file)
Extract(name) ==
    /\ calls < MaxCalls
    /\ ExtractEffect(ExtractPartition(platform, image, image.size, skip_fs,
                                      self_partitions, heap, name), name)
    /\ calls' = calls + 1
    /\ UNCHANGED <<image, platform, skip_fs, results, vin, vout, fpos, din, dout, sniffs, selected,
                   scanning, cursor, emitted, called, args, returned>>

NextAnalyze == Analyze

SpecAnalyze == InitAnalyzer /\ [][NextAnalyze]_vars

NextExtract == \E name \in RequestNames : Extract(name)

SpecExtract == InitAnalyzer /\ [][NextExtract]_vars

-----------------------------------------------------------------------------
(* _validate_partitions on partition lists of its own *)

MaxParts == 3

\* _validate_partitions of the analyzer class constructed for `plat`
AnalyzerValidate(plat, partitions, file_size) ==
    IF plat = "qualcomm" THEN QualcommValidatePartitions(partitions, file_size)
    ELSE NVIDIAValidatePartitions(partitions, file_size)

\* offset and size of the partitions validated: overlapping, touching and
\* disjoint ones, sizes at and next to every bound of both platforms
Extents ==
    {<<0, 1024>>, <<512, 1024>>, <<1024, 512>>, <<0, 511>>, <<512, 1023>>,
     <<1536, QUALCOMM_MAX_SIZE>>, <<0, QUALCOMM_MAX_SIZE + 1>>,
     <<1024, NVIDIA_MAX_SIZE>>, <<512, NVIDIA_MAX_SIZE + 1>>, <<2048, 0>>}

FileSizes == {2048, NVIDIA_MAX_SIZE + 1024}

\* the k-th partition of a validated list
ValidatedPartition(k, extent) ==
    PartitionInfo(STR_partition \o Dec(k), extent[1], extent[2], "UNKNOWN",
                  W32(0, 0), W32(0, 0))

PartitionLists ==
    {[k \in 1 .. n |-> ValidatedPartition(k - 1, es[k])] :
        n \in 0 .. MaxParts, es \in [1 .. MaxParts -> Extents]}

\* an analyzer about to validate a list of partitions
InitValidate ==
    /\ image = Blank(0)
    /\ platform \in Platforms
    /\ skip_fs = FALSE
    /\ self_partitions = 0
    /\ heap = <<>>
    /\ results = <<>>
    /\ outcome = NoOutcome
    /\ dest = NotOpened
    /\ fs_log = <<>>
    /\ calls = 0
    /\ vin \in {[partitions |-> ps, file_size |-> fs] : ps \in PartitionLists, fs \in FileSizes}
    /\ vout = None
    /\ fpos = 0
    /\ din = NoArguments
    /\ dout = <<>>
    /\ sniffs = <<>>
    /\ selected = <<>>
    /\ scanning = "idle"
    /\ cursor = 0
    /\ emitted = <<>>
    /\ called = "none"
    /\ args = <<>>
    /\ returned = <<>>

\* errors = self._validate_partitions(partitions)
Validate ==
    /\ vout = None
    /\ vout' = Some(AnalyzerValidate(platform, vin.partitions, vin.file_size))
    /\ UNCHANGED <<image, platform, skip_fs, self_partitions, heap, results, outcome,
                   dest, fs_log, calls, vin, fpos, din, dout,
                   sniffs, selected,
                   scanning, cursor, emitted, called, args, returned>>

NextValidate == Validate

SpecValidate == InitValidate /\ [][NextValidate]_vars

-----------------------------------------------------------------------------
(* FilesystemAnalyzer.analyze on regions of its own *)

\* an ext superblock at 1024: s_blocks_count, s_free_blocks_count,
\* s_log_block_size and the magic 0xEF53 at 0x438
ExtSuperblock(blocks, free, log_block_size) ==
    [k \in 1 .. 58 |->
        IF k \in 5 .. 8 THEN LE(blocks, 4)[k - 4]
        ELSE IF k \in 13 .. 16 THEN LE(free, 4)[k - 12]
        ELSE IF k \in 25 .. 28 THEN LE(log_block_size, 4)[k - 24]
        ELSE IF k = 57 THEN 83
        ELSE IF k = 58 THEN 239
        ELSE 0]

\* files holding one region at `at`: nothing, each filesystem's magic, a
\* SquashFS superblock of either byte order, one with block_size 0, one
\* that also carries the ext magic, and YAFFS2-like object headers
RegionFiles ==
    LET plain == {Put(Blank(n), 0, c) : n \in {512, 1023, 1024, 8192}, c \in FsContents}
                 \cup {Put(Blank(8192), 4096, c) : c \in FsContents}
        ext == Put(Blank(8192), 1024, ExtSuperblock(256, 16, 2))
        both == Put(ext, 0, SquashfsSuperblock(HSQS, 131072, 1024))
        yaffs == Put(Put(Blank(8192), 0, <<1>>), 512, <<3>>)
    IN  plain \cup {ext, both, yaffs}

RegionOffsets == {-1, 0, 4096, 7680}

RegionSizes == {-2, -1, 0, 96, 512, 1023, 1024, 8192, FS_MIN_SIZE + 1}

EntryPositions == {0, 84}

\* a file object at some position and the arguments of one analyze call
InitDetect ==
    /\ image \in RegionFiles
    /\ platform = "qualcomm"
    /\ skip_fs = FALSE
    /\ self_partitions = 0
    /\ heap = <<>>
    /\ results = <<>>
    /\ outcome = NoOutcome
    /\ dest = NotOpened
    /\ fs_log = <<>>
    /\ calls = 0
    /\ vin = NoInput
    /\ vout = <<>>
    /\ fpos \in EntryPositions
    /\ din \in {[offset |-> o, size |-> n] : o \in RegionOffsets, n \in RegionSizes}
    /\ dout = None
    /\ sniffs = <<>>
    /\ selected = <<>>
    /\ scanning = "idle"
    /\ cursor = 0
    /\ emitted = <<>>
    /\ called = "none"
    /\ args = <<>>
    /\ returned = <<>>

\* fs_info = fs_analyzer.analyze(f, offset, size)
Detect ==
    /\ dout = None
    /\ sniffs = <<>>
    /\ selected = <<>>
    /\ scanning = "idle"
    /\ cursor = 0
    /\ emitted = <<>>
    /\ \E r \in {FilesystemAnalyze(image, fpos, din.offset, din.size)} :
           /\ dout' = Some([exc |-> r.exc, fs |-> r.fs])
           /\ fpos' = r.pos
    /\ UNCHANGED <<image, platform, skip_fs, self_partitions, heap, results, outcome,
                   dest, fs_log, calls, vin, vout, din, sniffs, selected,
                   scanning, cursor, emitted, called, args, returned>>

NextDetect == Detect

SpecDetect == InitDetect /\ [][NextDetect]_vars

-----------------------------------------------------------------------------
(* can_handle on a shared file object, and select_analyzer *)

\* can_handle(f) calls made on one open file object
MaxSniffs == 2

\* can_handle(f) of the analyzer class constructed for `plat`, the file
\* object being at position pos
CanHandleAt(plat, img, pos) ==
    IF plat = "qualcomm" THEN QualcommCanHandle(img, pos) ELSE NVIDIACanHandle(img, pos)

\* an analyzer as its constructor leaves it
NewAnalyzer(plat, skip) == [exc |-> "", platform |-> plat, skip_fs_analysis |-> skip]

\* auto-detection asking the NVIDIA analyzer first
SelectNvidiaFirst(img, requested, skip) ==
    IF requested # "auto"
    THEN IF requested \in {"qualcomm", "nvidia"} THEN NewAnalyzer(requested, skip)
         ELSE [exc |-> "FlashImgError", platform |-> "", skip_fs_analysis |-> skip]
    ELSE Let(NVIDIACanHandle(img, 0), LAMBDA n :
             IF n.result THEN NewAnalyzer("nvidia", skip)
             ELSE IF QualcommCanHandle(img, n.pos).result THEN NewAnalyzer("qualcomm", skip)
             ELSE NewAnalyzer("qualcomm", skip))

\* select_analyzer(image_path, platform, skip_fs_analysis) for an existing
\* file: the analyzer returned, or the error raised for an unknown platform
select_analyzer(img, requested, skip) ==
    IF requested # "auto"
    THEN IF requested \in {"qualcomm", "nvidia"} THEN NewAnalyzer(requested, skip)
         ELSE [exc |-> "FlashImgError", platform |-> "", skip_fs_analysis |-> skip]
    ELSE Let(QualcommCanHandle(img, 0), LAMBDA q :
             IF q.result THEN NewAnalyzer("qualcomm", skip)
             ELSE IF NVIDIACanHandle(img, q.pos).result THEN NewAnalyzer("nvidia", skip)
             ELSE NewAnalyzer("qualcomm", skip))

UNKNOWN_FORMAT == <<85, 78, 75, 78, 79, 87, 78, 95, 70, 79, 82, 77, 65, 84>>

\* files that differ in their first bytes, in where a signature lies (in
\* the first 512 bytes, across byte 512, beyond it, across 64 KiB, beyond
\* it) and in where "EFI PART" lies
SniffedFiles ==
    {Truncate(Put(Put(Blank(size), 0, first), s.pos, s.magic)) :
        size \in {3, 518, 600, 80000},
        first \in {ELF_MAGIC, GANG_MAGIC, QCOM_MAGIC, ZERO_MAGIC, UNKNOWN_FORMAT, NVDA},
        s \in {[pos |-> 0, magic |-> <<>>], [pos |-> 100, magic |-> TEGR],
               [pos |-> 510, magic |-> BCT0], [pos |-> 4096, magic |-> NV3P],
               [pos |-> 65534, magic |-> NVDA], [pos |-> 70000, magic |-> TEGR],
               [pos |-> 512, magic |-> GPT_SIGNATURE],
               [pos |-> 513, magic |-> GPT_SIGNATURE]}}

RequestedPlatforms == {"auto", "qualcomm", "nvidia", "mediatek"}

\* an open file object at some position, before any analyzer analyzed it
InitSelect ==
    /\ image \in SniffedFiles
    /\ platform = "qualcomm"
    /\ skip_fs = FALSE
    /\ self_partitions = 0
    /\ heap = <<>>
    /\ results = <<>>
    /\ outcome = NoOutcome
    /\ dest = NotOpened
    /\ fs_log = <<>>
    /\ calls = 0
    /\ vin = NoInput
    /\ vout = <<>>
    /\ fpos \in {0, 700}
    /\ din = NoArguments
    /\ dout = <<>>
    /\ sniffs = <<>>
    /\ selected = <<>>
    /\ scanning = "idle"
    /\ cursor = 0
    /\ emitted = <<>>
    /\ called = "none"
    /\ args = <<>>
    /\ returned = <<>>

\* analyzer.can_handle(f) of an analyzer of class `plat`
CanHandle(plat) ==
    /\ Len(sniffs) < MaxSniffs
    /\ \E r \in {CanHandleAt(plat, image, fpos)} :
           /\ sniffs' = Append(sniffs, [plat |-> plat, entry |-> fpos, result |-> r.result])
           /\ fpos' = r.pos
    /\ UNCHANGED <<image, platform, skip_fs, self_partitions, heap, results, outcome,
                   dest, fs_log, calls, vin, vout, din, dout, selected,
                   scanning, cursor, emitted, called, args, returned>>

\* analyzer = select_analyzer(args.image, args.platform, args.skip_fs_analysis)
SelectAnalyzer(requested) ==
    /\ selected = <<>>
    /\ scanning = "idle"
    /\ cursor = 0
    /\ emitted = <<>>
    /\ selected' = Some([requested |-> requested,
                         analyzer |-> select_analyzer(image, requested, skip_fs)])
    /\ UNCHANGED <<image, platform, skip_fs, self_partitions, heap, results, outcome,
                   dest, fs_log, calls, vin, vout, fpos, din, dout, sniffs,
                   scanning, cursor, emitted, called, args, returned>>

NextSelect ==
    \/ \E plat \in Platforms : CanHandle(plat)
    \/ \E requested \in RequestedPlatforms : SelectAnalyzer(requested)

SpecSelect == InitSelect /\ [][NextSelect]_vars

-----------------------------------------------------------------------------
(* The fallback scans run one loop iteration at a time *)

\* offset += 4096 that leaves the offset where it is
SameCandidate(offset) == offset

\* offset += 4096 after a candidate offset that gave nothing
NextCandidate(offset) == offset + SCAN_STRIDE

\* the body of the while loop of _scan_mbn_images at cursor `offset`: how the
\* scan goes on, the new cursor and the new list
MbnIteration(img, file_size, skip, offset, partitions) ==
    IF Read(img, offset, MBN_HEADER_SIZE).len < MBN_HEADER_SIZE
    THEN [scan |-> "returned", cursor |-> offset, partitions |-> partitions]
    ELSE Let(_parse_mbn_header(img, Read(img, offset, MBN_HEADER_SIZE)), LAMBDA mbn_header :
         IF mbn_header # None /\ _validate_mbn_header(mbn_header[1], offset, file_size)
         THEN Let(_detect_image_type(img, offset, mbn_header[1]), LAMBDA t :
              IF t.exc # ""
              THEN [scan |-> "raised", cursor |-> offset, partitions |-> partitions]
              ELSE Let(MbnPartition(t.image_type, Len(partitions), offset, mbn_header[1]),
                       LAMBDA partition :
                   [scan |-> "running", cursor |-> AlignUp(offset + partition.size),
                    partitions |-> Append(partitions,
                                          MbnPartitionWithFs(img, skip, partition))]))
         ELSE [scan |-> "running", cursor |-> NextCandidate(offset),
               partitions |-> partitions])

\* the body of the while loop of _scan_nvidia_partitions at cursor `offset`
NvidiaIteration(img, file_size, offset, partitions) ==
    IF Read(img, offset, 512).len < 512
    THEN [scan |-> "returned", cursor |-> offset, partitions |-> partitions]
    ELSE Let(FirstMagicIn(img, Read(img, offset, 512)), LAMBDA m :
         IF m # 0
         THEN Let(offset + Find(img, Read(img, offset, 512), NVIDIA_MAGICS[m]),
                  LAMBDA actual_offset :
              Let(_estimate_partition_size(img, file_size, actual_offset), LAMBDA size :
                  [scan |-> "running", cursor |-> actual_offset + size,
                   partitions |-> Append(partitions,
                                         NvidiaPartition(Len(partitions), actual_offset,
                                                         size))]))
         ELSE [scan |-> "running", cursor |-> NextCandidate(offset),
               partitions |-> partitions])

\* files whose last 40 bytes are an MBN header, and files of about 40 bytes
EdgeImages ==
    {Put(Blank(4096 + n), 4096, MbnHeader(ZERO_MAGIC, 3, ADDR_SBL, 40)) : n \in {40, 41}}
    \cup {Put(Blank(n), 0, MbnHeader(GANG_MAGIC, 3, ADDR_SBL, 40)) : n \in {39, 40, 41}}
    \cup {Put(Blank(n), 0, NVDA) : n \in {511, 512, 513}}

ScannedFiles ==
    {Truncate(img) : img \in EdgeImages \cup
        {i \in SmallMbnImages \cup MultiMbnImages \cup SignatureImages : i.size <= 32768}}

\* a fallback scan about to start: offset = 0, partitions = []
InitScan ==
    /\ image \in ScannedFiles
    /\ platform \in Platforms
    /\ skip_fs = FALSE
    /\ self_partitions = 0
    /\ heap = <<>>
    /\ results = <<>>
    /\ outcome = NoOutcome
    /\ dest = NotOpened
    /\ fs_log = <<>>
    /\ calls = 0
    /\ vin = NoInput
    /\ vout = <<>>
    /\ fpos = 0
    /\ din = NoArguments
    /\ dout = <<>>
    /\ sniffs = <<>>
    /\ selected = <<>>
    /\ scanning = "running"
    /\ cursor = 0
    /\ emitted = <<>>
    /\ called = "none"
    /\ args = <<>>
    /\ returned = <<>>

\* what one iteration `it` leaves behind
ScanEffect(it) ==
    /\ scanning' = it.scan
    /\ cursor' = it.cursor
    /\ emitted' = it.partitions

\* one iteration of the loop of _scan_mbn_images
MbnScanStep ==
    /\ scanning = "running" /\ platform = "qualcomm"
    /\ cursor < image.size - MBN_HEADER_SIZE
    /\ ScanEffect(MbnIteration(image, image.size, skip_fs, cursor, emitted))
    /\ UNCHANGED <<image, platform, skip_fs, self_partitions, heap, results, outcome,
                   dest, fs_log, calls, vin, vout, fpos, din, dout, sniffs, selected,
                   called, args, returned>>

\* the loop condition of _scan_mbn_images fails: return partitions
MbnScanReturn ==
    /\ scanning = "running" /\ platform = "qualcomm"
    /\ ~(cursor < image.size - MBN_HEADER_SIZE)
    /\ scanning' = "returned"
    /\ UNCHANGED <<image, platform, skip_fs, self_partitions, heap, results, outcome,
                   dest, fs_log, calls, vin, vout, fpos, din, dout, sniffs, selected,
                   cursor, emitted, called, args, returned>>

\* one iteration of the loop of _scan_nvidia_partitions
NvidiaScanStep ==
    /\ scanning = "running" /\ platform = "nvidia"
    /\ cursor < image.size - 512
    /\ ScanEffect(NvidiaIteration(image, image.size, cursor, emitted))
    /\ UNCHANGED <<image, platform, skip_fs, self_partitions, heap, results, outcome,
                   dest, fs_log, calls, vin, vout, fpos, din, dout, sniffs, selected,
                   called, args, returned>>

\* the loop condition of _scan_nvidia_partitions fails: return partitions
NvidiaScanReturn ==
    /\ scanning = "running" /\ platform = "nvidia"
    /\ ~(cursor < image.size - 512)
    /\ scanning' = "returned"
    /\ UNCHANGED <<image, platform, skip_fs, self_partitions, heap, results, outcome,
                   dest, fs_log, calls, vin, vout, fpos, din, dout, sniffs, selected,
                   cursor, emitted, called, args, returned>>

NextScan == MbnScanStep \/ MbnScanReturn \/ NvidiaScanStep \/ NvidiaScanReturn

SpecScan == InitScan /\ [][NextScan]_vars

\* the loops are sequential code: an iteration that can run does run
SpecScanFair == SpecScan /\ WF_vars(NextScan)

-----------------------------------------------------------------------------
(* _detect_bct called on its own, as the unit tests call it *)

\* heads that BCT detection accepts, and one it does not
BctHeads == {BCT0, NVDA, TEGR}

\* files with a head at or near a probed offset, with or without a signature
\* in one of the windows where the size estimation looks
BctFiles ==
    {Truncate(Put(Put(Blank(size), p, head), q, sig)) :
        size \in {3, 600, 5000, 32768},
        p \in {0, 8, 512, 1024, 2048, 4096},
        head \in BctHeads,
        q \in {4096 + 511, 4096 + 512 + 508, 8192, 8192 + 1024 + 100, 16384 + 2048,
               16384 + 4096 + 511, 20000 + 4096},
        sig \in {<<>>, TEGR, GPT_SIGNATURE}}
    \cup {Truncate(Put(Put(Blank(8192), p1, BCT0), p2, NVDA)) :
             p1 \in {512, 2048, 4096}, p2 \in {0, 1024, 4096}}

\* an analyzer for a file, before any call
InitBct ==
    /\ image \in BctFiles
    /\ platform = "nvidia"
    /\ skip_fs = FALSE
    /\ self_partitions = 0
    /\ heap = <<>>
    /\ results = <<>>
    /\ outcome = NoOutcome
    /\ dest = NotOpened
    /\ fs_log = <<>>
    /\ calls = 0
    /\ vin = NoInput
    /\ vout = <<>>
    /\ fpos = 0
    /\ din = NoArguments
    /\ dout = <<>>
    /\ sniffs = <<>>
    /\ selected = <<>>
    /\ scanning = "idle"
    /\ cursor = 0
    /\ emitted = <<>>
    /\ called = "none"
    /\ args = <<>>
    /\ returned = <<>>

\* where _detect_bct leaves the file object: behind its last read, which is
\* the 512-byte probe at offset + size when a BCT was found and the 16-byte
\* read at the last probed offset otherwise
PositionAfterBct(img, bct_info) ==
    IF bct_info = None
    THEN BCT_OFFSETS[Len(BCT_OFFSETS)] + Read(img, BCT_OFFSETS[Len(BCT_OFFSETS)], 16).len
    ELSE bct_info[1].offset + bct_info[1].size
         + Read(img, bct_info[1].offset + bct_info[1].size, 512).len

\* bct_info = self._detect_bct(f)
DetectBct ==
    /\ called = "none"
    /\ called' = "_detect_bct"
    /\ \E bct_info \in {_detect_bct(image)} :
           /\ returned' = bct_info
           /\ fpos' = PositionAfterBct(image, bct_info)
    /\ UNCHANGED <<image, platform, skip_fs, self_partitions, heap, results, outcome,
                   dest, fs_log, calls, vin, vout, din, dout, sniffs, selected,
                   scanning, cursor, emitted, args>>

NextBct == DetectBct

SpecBct == InitBct /\ [][NextBct]_vars

-----------------------------------------------------------------------------
(* _detect_tegra_image_type called on its own, as the unit tests call it *)

\* str.upper() on the ASCII letters, to write names in capitals
Upper(s) == [k \in 1 .. Len(s) |-> IF s[k] >= 97 /\ s[k] <= 122 THEN s[k] - 32 ELSE s[k]]

\* the words the classification looks for
TegraWords ==
    {STR_bct, STR_mb1, STR_bootloader, STR_mb2, STR_tegraboot, STR_cboot, STR_bpmp,
     STR_tos, STR_trustzone, STR_kernel, STR_boot, STR_rootfs, STR_system, STR_app,
     STR_recovery}

\* words that are none of them: the empty name, "data", "mb", "boo", "to-s"
OtherWords == {<<>>, STR_data, <<109, 98>>, <<98, 111, 111>>, <<116, 111, 45, 115>>}

\* names made of two words joined by "_", in lower case, in capitals, or
\* with a capital first letter
TegraNames ==
    LET words == TegraWords \cup OtherWords
        joined == {a \o <<95>> \o b : a \in words, b \in words}
    IN  joined \cup {Upper(n) : n \in joined}
        \cup {Upper(SubSeq(n, 1, 1)) \o SubSeq(n, 2, Len(n)) : n \in joined}

\* the 16 bytes of a type GUID, all equal to one byte value
TypeGuids == {[k \in 1 .. 16 |-> b] : b \in {0, 1, 255}}

\* an analyzer, and the arguments of the call, before the call
InitTegra ==
    /\ image = Put(Blank(4), 0, <<116, 101, 115, 116>>)
    /\ platform = "nvidia"
    /\ skip_fs = FALSE
    /\ self_partitions = 0
    /\ heap = <<>>
    /\ results = <<>>
    /\ outcome = NoOutcome
    /\ dest = NotOpened
    /\ fs_log = <<>>
    /\ calls = 0
    /\ vin = NoInput
    /\ vout = <<>>
    /\ fpos = 0
    /\ din = NoArguments
    /\ dout = <<>>
    /\ sniffs = <<>>
    /\ selected = <<>>
    /\ scanning = "idle"
    /\ cursor = 0
    /\ emitted = <<>>
    /\ called = "none"
    /\ args \in [name : TegraNames, guid : TypeGuids]
    /\ returned = <<>>

\* analyzer._detect_tegra_image_type(name, guid)
DetectTegraImageType ==
    /\ called = "none"
    /\ called' = "_detect_tegra_image_type"
    /\ returned' = _detect_tegra_image_type(args.name, args.guid)
    /\ UNCHANGED <<image, platform, skip_fs, self_partitions, heap, results, outcome,
                   dest, fs_log, calls, vin, vout, fpos, din, dout, sniffs, selected,
                   scanning, cursor, emitted, args>>

NextTegra == DetectTegraImageType

SpecTegra == InitTegra /\ [][NextTegra]_vars

-----------------------------------------------------------------------------
(* Properties of analyze() *)

\* analyze() was the last call
AnalyzeDone == outcome.op = "analyze"

\* analyze() was the last call and returned an AnalysisResult
AnalyzeReturned == AnalyzeDone /\ outcome.out.exc = ""

\* analyze() was the last call, on a file its analyzer's can_handle rejects
RejectedAnalyze == AnalyzeDone /\ ~AnalyzerCanHandle(platform, image)

\* the partition list of the result of the last successful analyze()
LastPartitions == heap[Len(heap)]

\* C1 as stated: analyze() on a file for which the analyzer's can_handle is
\* false fails with UnsupportedFormatError, and no AnalysisResult is returned.
C1_FailsWithUnsupportedFormat ==
    RejectedAnalyze =>
        /\ outcome.out.exc = "UnsupportedFormatError"
        /\ outcome.out.result = None

\* C1 amended: analyze() on a file for which the analyzer's can_handle is
\* false fails with AnalysisError whose cause is the UnsupportedFormatError,
\* and no AnalysisResult is returned.
C1_FailsWithWrappedUnsupportedFormat ==
    RejectedAnalyze =>
        /\ outcome.out.exc = "AnalysisError"
        /\ outcome.out.cause = "UnsupportedFormatError"
        /\ outcome.out.result = None
        /\ results = <<>>

C1_Witness ==
    /\ RejectedAnalyze
    /\ outcome.out.cause = "UnsupportedFormatError"

\* C2: every failure of analyze() reaches the caller as an AnalysisError that
\* carries the original exception as its cause (UnsupportedFormatError exactly
\* when can_handle is false), and analyze() either returns a complete
\* AnalysisResult or raises AnalysisError, never anything else.
C2_FailuresAreAnalysisErrors ==
    AnalyzeDone =>
        \/ /\ outcome.out.exc = ""
           /\ outcome.out.result # None
           /\ outcome.out.result[1].file_size = image.size
           /\ outcome.out.result[1].partitions \in 1 .. Len(heap)
           /\ outcome.out.result[1].total_partition_size
                  = SumSeq([k \in 1 .. Len(LastPartitions) |-> LastPartitions[k].size])
           /\ ~RejectedAnalyze
        \/ /\ outcome.out.exc = "AnalysisError"
           /\ outcome.out.cause # ""
           /\ (outcome.out.cause = "UnsupportedFormatError") <=> RejectedAnalyze
           /\ outcome.out.result = None

C2_Witness ==
    /\ AnalyzeDone
    /\ outcome.out.exc = "AnalysisError"
    /\ outcome.out.cause = "ValueError"

\* C6: of two successive analyze() calls on one analyzer over an unchanged
\* file, the second returns a partition sequence equal element by element to
\* the first one's, and it leaves every result returned earlier, and the
\* list that result refers to, as they were.
C6_AnalyzeIsIdempotent ==
    [][(Len(results) >= 1 /\ Len(results') = Len(results) + 1) =>
          /\ heap'[results'[Len(results')].partitions]
                 = heap[results[Len(results)].partitions]
          /\ \A k \in 1 .. Len(results) :
                 /\ results'[k] = results[k]
                 /\ heap'[results[k].partitions] = heap[results[k].partitions]]_vars

C6_Witness ==
    /\ Len(results) = 2
    /\ platform = "qualcomm"
    /\ self_partitions # 0
    /\ Len(heap[results[2].partitions]) = 2
    /\ heap[results[1].partitions] = heap[results[2].partitions]

\* the partitions of the last analyze() came from a fallback scan (MBN header
\* scan, NVIDIA signature scan) and not from ELF program headers or the GPT
UsedFallbackScan ==
    IF platform = "qualcomm" THEN ~_try_parse_elf(image, skip_fs).ok
    ELSE _parse_gpt_partitions(image, skip_fs).partitions = <<>>

HasFallbackWarning ==
    \E k \in 1 .. Len(outcome.out.result[1].warnings) :
        outcome.out.result[1].warnings[k] \in {QUALCOMM_WARNING, NVIDIA_WARNING}

\* C9: whenever analyze() obtains its partitions from fallback scanning the
\* result's warnings hold a warning recording it, and when the structured
\* path (ELF program headers, GPT) produced them no such warning is present.
C9_FallbackIsWarned ==
    AnalyzeReturned => (UsedFallbackScan <=> HasFallbackWarning)

\* the filesystem analysis was run on the data region of partition p
AnalyzedRegion(p) ==
    \E k \in 1 .. Len(fs_log) :
        fs_log[k] \in {<<p.offset, p.size>>,
                       <<p.offset + MBN_HEADER_SIZE, p.size - MBN_HEADER_SIZE>>}

\* C10: when filesystem analysis is not disabled it is run on every partition
\* of the result larger than 1 MiB whichever path emitted it, on no partition
\* of at most 1 MiB, and on none at all when skip_fs_analysis is set.
C10_FilesystemAnalysisOnLargePartitions ==
    AnalyzeReturned =>
        \A k \in 1 .. Len(LastPartitions) :
            AnalyzedRegion(LastPartitions[k])
                <=> (~skip_fs /\ LastPartitions[k].size > 1048576)

\* a Qualcomm image without ELF header whose partitions the MBN scan found,
\* returned without any warning
C9_Witness ==
    /\ AnalyzeReturned
    /\ platform = "qualcomm"
    /\ UsedFallbackScan
    /\ Len(LastPartitions) > 0
    /\ outcome.out.result[1].warnings = <<>>

\* an NVIDIA signature scan returning a partition above 1 MiB with the
\* filesystem analysis enabled and never run
C10_Witness ==
    /\ AnalyzeReturned
    /\ platform = "nvidia"
    /\ ~skip_fs
    /\ UsedFallbackScan
    /\ \E k \in 1 .. Len(LastPartitions) : LastPartitions[k].size > 1048576
    /\ fs_log = <<>>

-----------------------------------------------------------------------------
(* Properties of extract_partition *)

\* extract_partition was the last call and its analyze() returned a result
ExtractAnalyzed == outcome.op = "extract" /\ outcome.err.text # "Error analyzing"

\* the partitions of that result that have the name asked for
Named == {k \in 1 .. Len(LastPartitions) : LastPartitions[k].name = outcome.name}

\* the bytes source[p.offset, p.offset + p.size) as a file content
SourceBytes(p) ==
    [size |-> p.size,
     data |-> [j \in {i - p.offset : i \in {i \in DOMAIN image.data :
                                              i >= p.offset /\ i < p.offset + p.size}}
                  |-> image.data[j + p.offset]]]

\* C3: for a partition p of the result of analyze() that is the first one
\* with its name, extract_partition(p.name) writes to the destination exactly
\* the bytes source[p.offset, p.offset + p.size).
C3_ExtractionRoundTrip ==
    (ExtractAnalyzed /\ Named # {}) =>
        LET p == LastPartitions[SetMin(Named)]
        IN  /\ outcome.err = NoError
            /\ outcome.written = Written(SourceBytes(p))
            /\ dest = outcome.written

\* C4: when fewer than partition.size bytes can be read at partition.offset,
\* extract_partition fails with AnalysisError and does not write the shorter
\* data to the destination.
C4_NoTruncatedExtraction ==
    (ExtractAnalyzed /\ Named # {}) =>
        LET p == LastPartitions[SetMin(Named)]
        IN  (image.size - p.offset < p.size) =>
                /\ outcome.err.exc = "AnalysisError"
                /\ ~outcome.written.opened

\* C5: extract_partition takes the first partition whose name is exactly the
\* one asked for; when the result has none of that name it fails with
\* PartitionNotFoundError listing the names of all partitions, before the
\* destination file is opened.
C5_LookupAndPartitionNotFound ==
    ExtractAnalyzed =>
        IF Named # {}
        THEN outcome.chosen = Some(LastPartitions[SetMin(Named)])
        ELSE /\ outcome.chosen = None
             /\ outcome.err.exc = "PartitionNotFoundError"
             /\ outcome.err.available
                    = [k \in 1 .. Len(LastPartitions) |-> LastPartitions[k].name]
             /\ ~outcome.written.opened

\* a GPT partition reaching beyond the end of the file, extracted shorter
\* than its size without an error
C3_Witness ==
    /\ ExtractAnalyzed
    /\ platform = "nvidia"
    /\ outcome.chosen # None
    /\ outcome.err = NoError
    /\ outcome.written.opened
    /\ outcome.written.content.size < outcome.chosen[1].size

\* an ELF segment reaching beyond the end of the file, extracted shorter
\* than its size without an error
C4_Witness ==
    /\ ExtractAnalyzed
    /\ platform = "qualcomm"
    /\ outcome.chosen # None
    /\ outcome.err = NoError
    /\ outcome.written.opened
    /\ outcome.written.content.size < outcome.chosen[1].size

\* a name no partition has, refused with AnalysisError listing the names,
\* the output of an earlier extraction left as it was
C5_Witness ==
    /\ ExtractAnalyzed
    /\ Named = {}
    /\ outcome.err.exc = "AnalysisError"
    /\ Len(outcome.err.available) > 0
    /\ ~outcome.written.opened
    /\ dest.opened

-----------------------------------------------------------------------------
(* Properties of _validate_partitions *)

\* the diagnostics returned for the validated list
Findings == vout[1]

\* the overlap diagnostics among them, in order
OverlapFindings == SelectSeq(Findings, LAMBDA d : d.msg = "overlaps with")

\* the validated list in ascending order of offset
ByOffset == SortedByOffset(vin.partitions)

\* the adjacent pairs of that order whose first member ends behind the start
\* of the second
OverlappingPairs ==
    {i \in 1 .. Len(ByOffset) - 1 :
        ByOffset[i].offset + ByOffset[i].size > ByOffset[i + 1].offset}

\* C7: over the partitions sorted by ascending offset, exactly one overlap
\* diagnostic is produced for each adjacent pair with
\* current.offset + current.size > next.offset and none for any other adjacent
\* pair; it names both partitions and gives
\* current.offset + current.size - next.offset as byte count. Partitions
\* [0,1024) and [512,1536) produce exactly one, naming both, with 512 bytes.
C7_OverlapDiagnostics ==
    vout # None =>
        /\ Len(OverlapFindings) = Cardinality(OverlappingPairs)
        /\ \A i \in 1 .. Len(ByOffset) - 1 :
               Cardinality({k \in 1 .. Len(OverlapFindings) :
                               /\ OverlapFindings[k].name = ByOffset[i].name
                               /\ OverlapFindings[k].other = ByOffset[i + 1].name
                               /\ OverlapFindings[k].n
                                      = ByOffset[i].offset + ByOffset[i].size
                                        - ByOffset[i + 1].offset})
                   = IF i \in OverlappingPairs THEN 1 ELSE 0
        /\ \A i \in 1 .. Len(ByOffset) - 1 : ByOffset[i].offset <= ByOffset[i + 1].offset
        /\ (/\ Len(vin.partitions) = 2
            /\ <<vin.partitions[1].offset, vin.partitions[1].size>> = <<0, 1024>>
            /\ <<vin.partitions[2].offset, vin.partitions[2].size>> = <<512, 1024>>)
               => OverlapFindings
                      = <<Diagnostic("overlaps with", vin.partitions[1].name,
                                     vin.partitions[2].name, 512)>>

C7_Witness ==
    /\ vout # None
    /\ Len(vin.partitions) = 2
    /\ <<vin.partitions[1].offset, vin.partitions[1].size>> = <<0, 1024>>
    /\ <<vin.partitions[2].offset, vin.partitions[2].size>> = <<512, 1024>>
    /\ Len(OverlapFindings) = 1

\* whether the findings hold diagnostic msg for the partition named name
Reports(msg, name) ==
    \E k \in 1 .. Len(Findings) : Findings[k].msg = msg /\ Findings[k].name = name

\* C8: for every partition, _validate_partitions reports "extends beyond file
\* end" iff offset + size > file_size, "unusually large" iff size is above
\* the platform maximum (Qualcomm 256 MiB, NVIDIA 1 GiB) and "unusually small"
\* iff size is below the platform minimum (Qualcomm 1 KiB, NVIDIA 512 B); a
\* size equal to a bound is not reported; the findings are returned.
C8_PerPartitionDiagnostics ==
    vout # None =>
        \A k \in 1 .. Len(vin.partitions) :
            LET p == vin.partitions[k]
                max == IF platform = "qualcomm" THEN 256 * 1024 * 1024
                       ELSE 1024 * 1024 * 1024
                min == IF platform = "qualcomm" THEN 1024 ELSE 512
            IN  /\ Reports("extends beyond file end", p.name)
                       <=> p.offset + p.size > vin.file_size
                /\ Reports("unusually large", p.name) <=> p.size > max
                /\ Reports("unusually small", p.name) <=> p.size < min
                /\ p.size \in {min, max}
                       => ~Reports("unusually large", p.name)
                          /\ ~Reports("unusually small", p.name)

C8_Witness ==
    /\ vout # None
    /\ platform = "nvidia"
    /\ \E k \in 1 .. Len(vin.partitions) : vin.partitions[k].size = 1024 * 1024 * 1024
    /\ \E k \in 1 .. Len(vin.partitions) : vin.partitions[k].size = 511
    /\ Reports("unusually small", vin.partitions[1].name)
    /\ ~Reports("unusually large", vin.partitions[1].name)

\* the byte ranges [offset, offset+size) of the j-th and k-th partition of
\* the validated list have a byte in common
RangesMeet(j, k) ==
    \E b \in {vin.partitions[j].offset, vin.partitions[k].offset} :
        /\ vin.partitions[j].offset <= b
        /\ b < vin.partitions[j].offset + vin.partitions[j].size
        /\ vin.partitions[k].offset <= b
        /\ b < vin.partitions[k].offset + vin.partitions[k].size

\* C30: for a list of partitions with sizes >= 0, if _validate_partitions
\* returns no overlap diagnostic then no two partitions of the list,
\* adjacent in offset order or not, have intersecting byte ranges
\* [offset, offset+size).
C30_OverlapCheckIsSound ==
    (/\ vout # None
     /\ \A k \in 1 .. Len(vin.partitions) : vin.partitions[k].size >= 0
     /\ OverlapFindings = <<>>)
        => \A j, k \in 1 .. Len(vin.partitions) : j # k => ~RangesMeet(j, k)

\* three partitions given out of offset order, two of them touching and one
\* empty, validated without an overlap diagnostic
C30_Witness ==
    /\ vout # None
    /\ Len(vin.partitions) = 3
    /\ vin.partitions[1].offset > vin.partitions[2].offset
    /\ vin.partitions[2].offset + vin.partitions[2].size = vin.partitions[1].offset
    /\ vin.partitions[3].size = 0
    /\ OverlapFindings = <<>>

-----------------------------------------------------------------------------
(* Claims about FilesystemAnalyzer.analyze (SpecDetect) *)

Detected == dout # None

\* bytes of the region [offset, offset+size) that the file holds (a size of
\* -1 makes read() return everything up to the end of the file)
Held ==
    IF din.size = -1 THEN Max2(0, image.size - din.offset)
    ELSE Max2(0, Min2(din.size, image.size - din.offset))

\* the region starts with a SquashFS superblock packed from these fields
HoldsSuperblock(magic, block_size, bytes_used) ==
    /\ din.offset >= 0
    /\ Held >= 96
    /\ \A k \in 1 .. 48 :
          ByteAt(image, din.offset + k - 1)
              = SquashfsSuperblock(magic, block_size, bytes_used)[k]

\* C11: FilesystemAnalyzer.analyze never raises, whatever offset, size and
\* file content: it returns a FilesystemInfo or None.  It returns None when
\* the file holds fewer than 1024 bytes of the region, and when a probe
\* faults (a SquashFS superblock whose block_size is 0).
C11_DetectorNeverRaises ==
    Detected =>
        /\ dout[1].exc = ""
        /\ Len(dout[1].fs) <= 1
        /\ Held < 1024 => dout[1].fs = None
        /\ HoldsSuperblock(HSQS, 0, 1024) => dout[1].fs = None

\* a call in which the SquashFS probe divided by a block_size of 0
C11_Witness ==
    /\ Detected
    /\ Held >= 1024
    /\ HoldsSuperblock(HSQS, 0, 1024)
    /\ FilesystemTry(image, din.offset, din.size).exc = "ZeroDivisionError"
    /\ dout[1] = [exc |-> "", fs |-> None]

SquashfsFields == {<<HSQS, 131072, 1024>>, <<SQSH, 4096, 8192>>}

SquashfsInfo(block_size, bytes_used) ==
    FilesystemInfo("squashfs", bytes_used, bytes_used, 0, block_size,
                   bytes_used \div block_size, 0)

HasExtMagic == ByteAt(image, din.offset + 1080) = 83 /\ ByteAt(image, din.offset + 1081) = 239

\* C12 as stated: every region that starts with a SquashFS superblock of
\* either byte order and holds its 96 bytes is reported as squashfs with
\* fs_size = used_size = bytes_used and free_size = 0, a region of exactly
\* 96 bytes included.
C12_SquashfsProbeOn96Bytes ==
    Detected =>
        \A q \in SquashfsFields :
            HoldsSuperblock(q[1], q[2], q[3]) => dout[1].fs = Some(SquashfsInfo(q[2], q[3]))

\* C12 (amended): a region of which at least 1024 bytes are read, that
\* starts with a SquashFS superblock of either byte order and has no ext
\* magic at 0x438, is reported as squashfs with fs_size = used_size =
\* bytes_used and free_size = 0, decoded in the superblock's byte order; a
\* region of which fewer than 1024 bytes are held is reported as None.
C12_SquashfsProbe ==
    Detected =>
        \A q \in SquashfsFields :
            HoldsSuperblock(q[1], q[2], q[3]) =>
                /\ Held >= 1024 /\ ~HasExtMagic => dout[1].fs = Some(SquashfsInfo(q[2], q[3]))
                /\ Held < 1024 => dout[1].fs = None

\* a big-endian superblock in a region of 8192 bytes was decoded
C12_Witness ==
    /\ Detected
    /\ HoldsSuperblock(SQSH, 4096, 8192)
    /\ Held = 8192
    /\ dout[1].fs = Some(SquashfsInfo(4096, 8192))

\* C28: FilesystemAnalyzer.analyze leaves the read position of the file
\* handle where it was at the call, on every exit path: a match, no match, a
\* region shorter than 1 KiB, an exception inside a probe or at the seek.
C28_DetectorRestoresPosition ==
    [][dout = None /\ dout' # None => fpos' = fpos]_vars

\* a call made with the handle at position 84 in which a probe raised, the
\* handle being at 84 afterwards
C28_Witness ==
    /\ dout # None
    /\ fpos = 84
    /\ FilesystemTry(image, din.offset, din.size).exc = "ZeroDivisionError"
    /\ dout[1].fs = None

-----------------------------------------------------------------------------
(* Claims about the GPT path of the NVIDIA analyzer (SpecAnalyze) *)

\* the file holds a GPT header at LBA 1
GptValid == image.size >= 512 + 92 /\ MatchAt(image, 512, GPT_SIGNATURE)

GptEntryCount == IntLE(image, 512 + 80, 4)

GptEntrySize == IntLE(image, 512 + 84, 4)

\* where entry i of the table starts
GptEntryBase(i) == IntLE(image, 512 + 72, 8) * 512 + i * GptEntrySize

\* entry i is read with at least 128 bytes
GptEntryRead(i) == GptEntrySize >= 128 /\ GptEntryBase(i) + 128 <= image.size

\* entry i has a type GUID other than zero
GptEntryNonEmpty(i) == \E k \in 0 .. 15 : ByteAt(image, GptEntryBase(i) + k) # 0

\* the indices of the non-empty entries read, in table order
NonEmptyEntries ==
    LET S == {i \in 0 .. GptEntryCount - 1 : GptEntryRead(i) /\ GptEntryNonEmpty(i)}
    IN  [k \in 1 .. Cardinality(S) |->
            CHOOSE i \in S : Cardinality({j \in S : j < i}) = k - 1]

\* the 72 bytes of the name field of entry i
GptNameField(i) == [k \in 1 .. 72 |-> ByteAt(image, GptEntryBase(i) + 56 + k - 1)]

\* p is the partition that entry i stands for
DecodesEntry(p, i) ==
    /\ p.offset = IntLE(image, GptEntryBase(i) + 32, 8) * 512
    /\ p.size = (IntLE(image, GptEntryBase(i) + 40, 8)
                 - IntLE(image, GptEntryBase(i) + 32, 8) + 1) * 512
    /\ IF GptNameField(i) = [k \in 1 .. 72 |-> 0]
       THEN p.name = STR_partition \o Dec(i)
       ELSE /\ p.name # <<>>
            /\ p.name[Len(p.name)] # 0
            /\ Len(p.name) <= 36
            /\ GptNameField(i) = Utf16(p.name) \o [k \in 1 .. 72 - 2 * Len(p.name) |-> 0]

\* the partitions of the last result that follow the one of BCT detection
AfterBct == IF _detect_bct(image) # None THEN Tail(LastPartitions) ELSE LastPartitions

\* C14: every non-empty 128-byte GPT entry that is read yields a partition,
\* in table order, with offset = first_lba*512, size =
\* (last_lba-first_lba+1)*512 and the UTF-16LE name of the entry without its
\* trailing NULs, or "partition_<index>" when that name is empty.
C14_GptEntryDecoding ==
    AnalyzeReturned /\ platform = "nvidia" /\ GptValid /\ NonEmptyEntries # <<>> =>
        /\ Len(AfterBct) = Len(NonEmptyEntries)
        /\ \A k \in 1 .. Len(NonEmptyEntries) : DecodesEntry(AfterBct[k], NonEmptyEntries[k])

\* entry i holds a name that is not valid UTF-16LE
UndecodableName(i) == ~Utf16Decode([k \in 1 .. 36 |->
                           U16(image, GptEntryBase(i) + 56 + 2 * (k - 1))]).ok

\* a table whose only entry is non-empty, has an undecodable name and is
\* missing from the result
C14_Witness ==
    /\ AnalyzeReturned /\ platform = "nvidia" /\ GptValid
    /\ NonEmptyEntries = <<0>>
    /\ UndecodableName(0)
    /\ LastPartitions = <<>>

\* the entries the table iteration emits according to its description: the
\* non-empty entries read, or none without a GPT header
IteratedEntries == IF GptValid THEN NonEmptyEntries ELSE <<>>

\* C23: with a valid GPT header entry i is read from byte
\* partition_entry_lba*512 + i*entry_size; an entry whose first 16 bytes are
\* zero is skipped without stopping the iteration, so the non-empty entries
\* are emitted in table order, also after an empty one; the iteration stops
\* early only at a read of fewer than 128 bytes; and the fallback scan runs
\* iff the iteration yields no partition.
C23_GptIteration ==
    AnalyzeReturned /\ platform = "nvidia" =>
        /\ HasFallbackWarning <=> IteratedEntries = <<>>
        /\ IteratedEntries # <<>> =>
               /\ Len(AfterBct) = Len(IteratedEntries)
               /\ \A k \in 1 .. Len(IteratedEntries) :
                      AfterBct[k].offset
                          = IntLE(image, GptEntryBase(IteratedEntries[k]) + 32, 8) * 512

\* a table of an empty entry followed by a non-empty one whose name cannot
\* be decoded: the second entry is not emitted and the fallback scan ran
C23_Witness ==
    /\ AnalyzeReturned /\ platform = "nvidia" /\ GptValid
    /\ GptEntryCount = 2
    /\ ~GptEntryNonEmpty(0)
    /\ NonEmptyEntries = <<1>>
    /\ UndecodableName(1)
    /\ HasFallbackWarning

\* C26: every PartitionInfo emitted by any discovery path has an offset and
\* a size that are unsigned values (0 <= offset, 0 <= size); in particular a
\* non-empty GPT entry with last_lba < first_lba - 1 does not produce a
\* partition with a negative size.
C26_UnsignedOffsetAndSize ==
    AnalyzeReturned =>
        \A k \in 1 .. Len(LastPartitions) :
            LastPartitions[k].offset >= 0 /\ LastPartitions[k].size >= 0

\* the partition of a GPT entry whose last_lba lies more than one block
\* before its first_lba, returned with a negative size
C26_Witness ==
    /\ AnalyzeReturned /\ platform = "nvidia" /\ GptValid
    /\ NonEmptyEntries = <<0>>
    /\ IntLE(image, GptEntryBase(0) + 40, 8) < IntLE(image, GptEntryBase(0) + 32, 8) - 1
    /\ Len(AfterBct) = 1
    /\ AfterBct[1].size < 0

\* the byte ranges [offset, offset+size) of partitions p and q intersect
Intersect(p, q) ==
    Max2(p.offset, q.offset) < Min2(p.offset + p.size, q.offset + q.size)

\* the validation errors of the last result that report an overlap with the
\* BCT partition
BctOverlapFindings ==
    SelectSeq(outcome.out.result[1].validation_errors,
              LAMBDA d : d.msg = "overlaps with" /\ STR_BCT \in {d.name, d.other})

\* C29: in an NVIDIA result without valid GPT the "BCT" partition found by
\* BCT detection and the partitions emitted by the fallback signature scan
\* cover pairwise disjoint byte ranges, and the result holds no overlap
\* diagnostic between them.
C29_BctAndScanDisjoint ==
    AnalyzeReturned /\ platform = "nvidia" /\ ~GptValid /\ _detect_bct(image) # None =>
        /\ \A k \in 2 .. Len(LastPartitions) : ~Intersect(LastPartitions[1], LastPartitions[k])
        /\ BctOverlapFindings = <<>>

\* a result whose BCT partition and first scanned partition start at the
\* same signature, reported as overlapping
C29_Witness ==
    /\ AnalyzeReturned /\ platform = "nvidia" /\ ~GptValid
    /\ Len(LastPartitions) = 2
    /\ LastPartitions[1].name = STR_BCT
    /\ LastPartitions[2].name = STR_nvidia_partition \o Dec(0)
    /\ LastPartitions[2].offset = LastPartitions[1].offset
    /\ BctOverlapFindings # <<>>

-----------------------------------------------------------------------------
(* Claims about can_handle and select_analyzer (SpecSelect) *)

\* one of the four signatures lies entirely within the first n bytes
SignatureWithin(n) ==
    \E m \in 1 .. Len(NVIDIA_MAGICS) : \E p \in DOMAIN image.data :
        /\ p + Len(NVIDIA_MAGICS[m]) <= Min2(n, image.size)
        /\ MatchAt(image, p, NVIDIA_MAGICS[m])

\* the 8 bytes at offset 512 are "EFI PART"
EfiPartAt512 == image.size >= 520 /\ MatchAt(image, 512, GPT_SIGNATURE)

NvidiaAccepts == SignatureWithin(512) \/ SignatureWithin(65536) \/ EfiPartAt512

\* the first four bytes are one of the magics known to the Qualcomm analyzer
QualcommAccepts == image.size >= 4 /\ \E magic \in known_magics : MatchAt(image, 0, magic)

\* C15: NVIDIA can_handle answers true iff one of NVDA, TEGR, BCT\0, NV3P
\* occurs in the first 512 bytes or in the first 64 KiB of the file, or the 8
\* bytes at offset 512 are "EFI PART"; it answers false for every other file.
C15_NvidiaCanHandle ==
    \A k \in 1 .. Len(sniffs) :
        sniffs[k].plat = "nvidia" => (sniffs[k].result <=> NvidiaAccepts)

\* accepted for a signature that lies beyond the first 512 bytes only
C15_Witness ==
    /\ \E k \in 1 .. Len(sniffs) : sniffs[k].plat = "nvidia" /\ sniffs[k].result
    /\ ~SignatureWithin(512)
    /\ ~EfiPartAt512
    /\ SignatureWithin(65536)

\* C16: can_handle changes no field of the analyzer, can be invoked any
\* number of times, and answers the same for the same file content whatever
\* the position of the shared file object on entry, also after the other
\* analyzer's can_handle used the file object.
C16_CanHandleIsPure ==
    /\ \A j \in 1 .. Len(sniffs) : \A k \in 1 .. Len(sniffs) :
          sniffs[j].plat = sniffs[k].plat => sniffs[j].result = sniffs[k].result
    /\ \A k \in 1 .. Len(sniffs) :
          sniffs[k].result = IF sniffs[k].plat = "qualcomm" THEN QualcommAccepts
                             ELSE NvidiaAccepts
    /\ sniffs # <<>> =>
          /\ self_partitions = 0 /\ heap = <<>> /\ results = <<>>
          /\ skip_fs = FALSE /\ outcome = NoOutcome

\* the Qualcomm can_handle on a file object that the NVIDIA can_handle left
\* at 64 KiB, where four zero bytes follow: it still answers by the first
\* four bytes of the file
C16_Witness ==
    /\ Len(sniffs) = 2
    /\ sniffs[1].plat = "nvidia" /\ sniffs[1].entry = 700
    /\ sniffs[2].plat = "qualcomm" /\ sniffs[2].entry = 65536
    /\ image.size >= 65540 /\ MatchAt(image, 65536, ZERO_MAGIC)
    /\ ~QualcommAccepts
    /\ ~sniffs[2].result

AutoSelected == selected # <<>> /\ selected[1].requested = "auto"

\* C17: auto-detection asks Qualcomm, then NVIDIA, returns the first whose
\* can_handle is true and the Qualcomm analyzer when neither is; it always
\* returns an analyzer, and gives a file both accept to Qualcomm.
C17_AutoDetection ==
    AutoSelected =>
        /\ selected[1].analyzer.exc = ""
        /\ selected[1].analyzer.platform =
              IF QualcommAccepts THEN "qualcomm"
              ELSE IF NvidiaAccepts THEN "nvidia"
              ELSE "qualcomm"
        /\ selected[1].analyzer.skip_fs_analysis = skip_fs

\* a file that neither analyzer accepts, given to the Qualcomm analyzer
C17_Witness ==
    /\ AutoSelected
    /\ ~QualcommAccepts /\ ~NvidiaAccepts
    /\ selected[1].analyzer = NewAnalyzer("qualcomm", skip_fs)

-----------------------------------------------------------------------------
(* Claims about the paths of the Qualcomm analyzer (SpecAnalyze) *)

StartsWithElf == image.size >= 4 /\ MatchAt(image, 0, ELF_MAGIC)

\* where program header i of the ELF header's table starts
ElfEntryAt(i) == WInt(U32(image, 28)) + i * U16(image, 42)

\* program header i is read with its 32 bytes, has type 1 (PT_LOAD) and a
\* file size above 0
LoadableSegment(i) ==
    /\ U16(image, 42) >= 32
    /\ ElfEntryAt(i) + 32 <= image.size
    /\ U32(image, ElfEntryAt(i)) = W32(0, 1)
    /\ ~WIsZero(U32(image, ElfEntryAt(i) + 16))

NoLoadableSegment == \A i \in 0 .. U16(image, 44) - 1 : ~LoadableSegment(i)

\* what the MBN header scan finds in the file
MbnScanOfImage == _scan_mbn_images(image, image.size, skip_fs)

\* C18: Qualcomm analyze() takes its partitions from the MBN linear scan for
\* every accepted image whose magic is not ELF, and also for an ELF image
\* whose program headers yield no loadable segment: the result's partitions
\* are then those found by the MBN scan.
C18_MbnScanWhenNoSegments ==
    /\ AnalyzeDone /\ platform = "qualcomm" /\ AnalyzerCanHandle(platform, image)
    /\ (~StartsWithElf \/ NoLoadableSegment)
    => IF MbnScanOfImage.exc # "" THEN ~AnalyzeReturned
       ELSE AnalyzeReturned /\ LastPartitions = MbnScanOfImage.partitions

\* an ELF image without loadable segment in which the MBN scan finds a
\* partition, analyzed to an empty partition list
C18_Witness ==
    /\ AnalyzeReturned /\ platform = "qualcomm"
    /\ StartsWithElf /\ NoLoadableSegment
    /\ MbnScanOfImage.exc = "" /\ MbnScanOfImage.partitions # <<>>
    /\ LastPartitions = <<>>

-----------------------------------------------------------------------------
(* Claims about the fallback scans (SpecScan, SpecScanFair) *)

\* the header fields at the cursor
HeaderVsn == U32(image, cursor + 4)

HeaderDest == U32(image, cursor + 12)

HeaderSize == U32(image, cursor + 16)

\* the acceptance conditions for the 40-byte header at the cursor
Acceptable ==
    /\ ~WIsZero(HeaderSize)
    /\ WLe(HeaderSize, W32(image.size \div 65536, image.size % 65536))
    /\ cursor + WInt(HeaderSize) <= image.size
    /\ WLe(HeaderVsn, W32(0, 10))
    /\ WLe(W32(16384, 0), HeaderDest)
    /\ WLe(HeaderDest, W32(65535, 65535))

\* the MBN scan examines the header at the cursor in this step
MbnExamines == scanning = "running" /\ platform = "qualcomm"
               /\ cursor < image.size - MBN_HEADER_SIZE

\* this step appended one partition for the header at the cursor
EmitsHeader ==
    /\ Len(emitted') = Len(emitted) + 1
    /\ SubSeq(emitted', 1, Len(emitted)) = emitted
    /\ emitted'[Len(emitted')].offset = cursor
    /\ emitted'[Len(emitted')].size = WInt(HeaderSize)
    /\ emitted'[Len(emitted')].load_addr = HeaderDest
    /\ emitted'[Len(emitted')].entry_point = HeaderDest
    /\ WLe(HeaderDest, W32(20479, 65535)) => emitted'[Len(emitted')].image_type = "SBL"

\* C13: a 40-byte header examined at a scan offset yields a partition iff
\* 0 < image_size <= file_size, offset+image_size <= file_size,
\* header_vsn_num <= 10 and 0x40000000 <= image_dest_ptr <= 0xFFFFFFFF; the
\* partition has that offset, size = image_size and load_addr = entry_point
\* = image_dest_ptr, and is classified SBL for image_dest_ptr 0x40000000.
C13_MbnAcceptance ==
    [][MbnExamines =>
          IF Acceptable THEN EmitsHeader ELSE emitted' = emitted]_vars

\* an acceptable header for which the scan ended with an exception and
\* without a partition
C13_Witness ==
    /\ platform = "qualcomm" /\ scanning = "raised"
    /\ Acceptable
    /\ emitted = <<>>

\* C19: every scanning loop terminates on every file: in the MBN scan and
\* in the NVIDIA signature scan the cursor strictly increases with every
\* iteration after which the loop goes on, and the scan eventually returns
\* or raises.
C19_ScansTerminate ==
    /\ [][scanning' = "running" => cursor' > cursor]_vars
    /\ <>(scanning # "running")

\* a scan that returned after several iterations, hits and misses
C19_Witness ==
    /\ scanning = "returned"
    /\ Len(emitted) >= 2
    /\ cursor > emitted[Len(emitted)].offset + emitted[Len(emitted)].size

\* C20: the MBN scan starts at offset 0, moves the cursor to
\* align_up(offset+image_size, 4096) after an accepted header and to
\* offset+4096 after a rejected one, and stops only when fewer than 40 bytes
\* remain: the header at a cursor position with offset+40 <= file_size is
\* examined, also where exactly 40 bytes remain.
C20_MbnScanCursor ==
    /\ [](platform = "qualcomm" /\ scanning = "returned" => image.size - cursor < 40)
    /\ [][MbnExamines /\ scanning' = "running" =>
             cursor' = IF Acceptable
                       THEN ((cursor + WInt(HeaderSize) + 4095) \div 4096) * 4096
                       ELSE cursor + 4096]_vars

\* the scan returned with the cursor at an acceptable header of exactly 40
\* bytes that ends the file
C20_Witness ==
    /\ platform = "qualcomm" /\ scanning = "returned"
    /\ image.size - cursor = 40
    /\ Acceptable
    /\ \A k \in 1 .. Len(emitted) : emitted[k].offset # cursor

\* this step skipped the record at the cursor: nothing emitted, the cursor
\* advanced by the stride
SkipsHeader == emitted' = emitted /\ cursor' = cursor + SCAN_STRIDE

\* C21: no record met during the MBN scan aborts it: every examined 40-byte
\* record is either emitted as a partition or skipped with the cursor
\* advanced by 4096, and the scan goes on; this includes accepted headers
\* whose image_size is smaller than the 40-byte header.
C21_MbnScanResilience ==
    /\ [](scanning # "raised")
    /\ [][MbnExamines =>
             /\ scanning' = "running"
             /\ EmitsHeader \/ SkipsHeader]_vars

\* the scan ended with an exception at an accepted header whose image_size
\* is smaller than the header and whose load address calls for the content
\* inspection
C21_Witness ==
    /\ platform = "qualcomm" /\ scanning = "raised"
    /\ _validate_mbn_header(_parse_mbn_header(image, Read(image, cursor, MBN_HEADER_SIZE))[1],
                            cursor, image.size)
    /\ WInt(HeaderSize) - MBN_HEADER_SIZE < -1
    /\ ~InRange32(HeaderDest, W32(16384, 0), W32(20479, 65535))

\* the diagnostics _validate_partitions gives for the partitions emitted so far
ScanFindings == QualcommValidatePartitions(emitted, image.size)

\* C27: after any number of iterations of the MBN scan the emitted
\* partitions have offsets that are multiples of 4096 and strictly increasing
\* in discovery order, each ends within the file, and they are pairwise
\* disjoint; validation of them reports neither 'extends beyond file end'
\* nor an overlap.
C27_MbnScanInvariant ==
    platform = "qualcomm" =>
        /\ \A k \in 1 .. Len(emitted) :
               /\ emitted[k].offset % 4096 = 0
               /\ emitted[k].offset + emitted[k].size <= image.size
        /\ \A j, k \in 1 .. Len(emitted) :
               j < k => /\ emitted[j].offset < emitted[k].offset
                        /\ emitted[j].offset + emitted[j].size <= emitted[k].offset
        /\ \A d \in 1 .. Len(ScanFindings) :
               ScanFindings[d].msg \notin {"extends beyond file end", "overlaps with"}

\* a scan that returned two partitions, the second one starting where the
\* first one ends and ending at the end of the file
C27_Witness ==
    /\ platform = "qualcomm" /\ scanning = "returned"
    /\ Len(emitted) = 2
    /\ emitted[2].offset = emitted[1].offset + emitted[1].size
    /\ emitted[2].offset + emitted[2].size = image.size

-----------------------------------------------------------------------------
(* Claims about BCT detection (SpecBct) *)

\* the byte string `magic` lies in the file at position p
HoldsAt(p, magic) == p + Len(magic) <= image.size /\ MatchAt(image, p, magic)

\* the first 4 bytes at offset p are BCT\0 or NVDA
BctHeadAt(p) == HoldsAt(p, BCT0) \/ HoldsAt(p, NVDA)

\* the 512-byte window at p contains a platform signature or the GPT signature
SignatureInWindow(p) ==
    \E m \in 1 .. Len(ALL_SIGNATURES) :
        \E s \in p .. p + 512 - Len(ALL_SIGNATURES[m]) : HoldsAt(s, ALL_SIGNATURES[m])

\* the probed offsets that hold a BCT head, as indices of the probe order
BctProbeHits == {k \in 1 .. 5 : BctHeadAt(<<0, 512, 1024, 2048, 4096>>[k])}

\* the first extent among 4096, 8192, 16384 with a signature behind it
BctExtent(offset) ==
    IF SignatureInWindow(offset + 4096) THEN 4096
    ELSE IF SignatureInWindow(offset + 8192) THEN 8192
    ELSE 16384

\* C22: BCT detection emits at most one partition, named "BCT": it lies at
\* the first offset in the probe order 0, 512, 1024, 2048, 4096 whose first 4
\* bytes are BCT\0 or NVDA, and its size is the first extent among 4096,
\* 8192, 16384 at which the probed 512-byte window contains a signature, else
\* 16384, also when the file is shorter.
C22_BctDetection ==
    called = "_detect_bct" =>
        IF BctProbeHits = {} THEN returned = None
        ELSE /\ Len(returned) = 1
             /\ returned[1].name = STR_BCT
             /\ returned[1].image_type = "UNKNOWN"
             /\ returned[1].offset = <<0, 512, 1024, 2048, 4096>>[SetMin(BctProbeHits)]
             /\ returned[1].size = BctExtent(returned[1].offset)
             /\ returned[1].size \in {4096, 8192, 16384}

\* a BCT found at the second probed offset of a 600-byte file: its size is
\* 16384 bytes, far beyond the end of the file
C22_Witness ==
    /\ called = "_detect_bct"
    /\ image.size = 600
    /\ returned # None
    /\ returned[1].offset = 512
    /\ returned[1].size = 16384

-----------------------------------------------------------------------------
(* Claims about the Tegra classification (SpecTegra) *)

\* the rules of the classification in their priority order
TegraRules ==
    <<[words |-> {STR_bct}, type |-> "UNKNOWN"],
      [words |-> {STR_mb1, STR_bootloader}, type |-> "SBL"],
      [words |-> {STR_mb2, STR_tegraboot}, type |-> "APPSBL"],
      [words |-> {STR_cboot}, type |-> "APPSBL"],
      [words |-> {STR_bpmp}, type |-> "RPM"],
      [words |-> {STR_tos, STR_trustzone}, type |-> "TZ"],
      [words |-> {STR_kernel, STR_boot}, type |-> "BOOT"],
      [words |-> {STR_rootfs, STR_system, STR_app}, type |-> "UNKNOWN"],
      [words |-> {STR_recovery}, type |-> "BOOT"]>>

\* word w occurs in the name whatever the case of the name's letters
OccursIgnoringCase(w, name) ==
    \E p \in 0 .. (Len(name) - Len(w)) :
        \A k \in 1 .. Len(w) :
            name[p + k] = w[k] \/ (name[p + k] \in 65 .. 90 /\ name[p + k] + 32 = w[k])

\* the rules that match the name
MatchingRules(name) ==
    {r \in 1 .. Len(TegraRules) : \E w \in TegraRules[r].words : OccursIgnoringCase(w, name)}

-----------------------------------------------------------------------------
(* Claims about the NVIDIA signature scan (SpecScan) *)

\* the positions of the file where a platform signature starts
SignaturePositions ==
    {s \in DOMAIN image.data : \E m \in 1 .. Len(NVIDIA_MAGICS) : HoldsAt(s, NVIDIA_MAGICS[m])}

\* position s lies inside the extent of an emitted partition
InsideEmitted(s) ==
    \E k \in 1 .. Len(emitted) :
        emitted[k].offset <= s /\ s < emitted[k].offset + emitted[k].size

\* can_handle accepts the file because of a signature in its first 64 KiB
AcceptedBySignature == \E s \in SignaturePositions : s + 4 <= 65536

\* C25: the NVIDIA fallback scan covers the whole file at 512-byte
\* granularity: a signature at any offset of a file without valid GPT lies in
\* the extent of an emitted partition, and whenever can_handle accepted the
\* file because of a signature in its first 64 KiB the scan emits at least
\* one partition.
C25_FallbackScanCoverage ==
    platform = "nvidia" /\ scanning = "returned" /\ ~GptValid =>
        /\ \A s \in SignaturePositions : InsideEmitted(s)
        /\ AcceptedBySignature => emitted # <<>>

\* a file that can_handle accepts for its signatures at 512 and 5000, on
\* which the scan returned without any partition
C25_Witness ==
    /\ platform = "nvidia" /\ scanning = "returned" /\ ~GptValid
    /\ NVIDIACanHandle(image, 0).result
    /\ SignaturePositions = {512, 5000}
    /\ emitted = <<>>

====
